---- MODULE Spec2Model ----
(***************************************************************************)
(* log4go: the logger tree (level inheritance, handler lists, staged       *)
(* buffers), the dispatch algorithm Logger.log / Logger.flushStaged, the   *)
(* StreamHandler pipeline (Handle -> commitChannel -> committer -> sink)   *)
(* and the process-wide Shutdown.                                          *)
(*                                                                         *)
(* One application goroutine (the caller) makes the API calls one after    *)
(* the other; each StreamHandler has its own committer goroutine.          *)
(* Record.Time (time.Now()) is left out: no decision of the dispatch or of *)
(* the pipeline reads it.  Every emission logs a distinct message text     *)
(* (as the tests do with "test message %d"): message k is the text of the  *)
(* k-th emission call.                                                     *)
(***************************************************************************)
EXTENDS Integers, Sequences, FiniteSets, TLC

\* ---------------------------------------------------------------- levels
INHERIT == 0
TRACE   == 1
DEBUG   == 2
INFO    == 3
WARNING == 4
ERROR   == 5
FATAL   == 6

Levels == INHERIT..FATAL

\* ---------------------------------------------------------------- bounds
MaxLoggers  == 2   \* Logger objects ever created under Spec (root included)
MaxHandlers == 2   \* StreamHandler objects ever created
MaxCalls    == 3   \* configuration and emission calls under Spec
MaxShutdown == 1   \* calls of the package-level Shutdown()
TreeLoggers == 4   \* Logger objects ever created under SpecTree
TreeCalls   == 2   \* SetLevel calls under SpecTree
Workers       == 2 \* emitting goroutines under SpecConc
PerWorker     == 2 \* messages of each emitting goroutine under SpecConc
Closers       == 2 \* goroutines calling StreamHandler.Shutdown()
ShutdownCalls == 2 \* Shutdown() calls of each such goroutine

\* capacity of StreamHandler.commitChannel
QueueCap == 100

\* inputs
SubNames      == {<<"a">>}                \* subName arguments of GetLogger
TreeNames     == {<<>>, <<"a">>, <<"b">>} \* the same, under SpecTree
SetLevels     == {INHERIT, DEBUG, ERROR}  \* arguments of Logger.SetLevel
HandlerLevels == {ERROR}                  \* arguments of StreamHandler.SetLevel
LogLevels     == {ERROR}                  \* lvl arguments of Log / StageLog
ExitCodes     == {0, 1}                   \* CrashOpts.ExitCode

VARIABLES
    rootLogger,   \* var rootLogger *Logger: 0 is nil, else an index of nodes
    loggers,      \* var loggers map[string]*Logger: name -> index of nodes
    nodes,        \* the Logger objects allocated so far
    hs,           \* the StreamHandler objects allocated so far
    pc,           \* where the caller is: idle, shutdown, wait, exited
    sdPending,    \* Shutdown(): handlers of allHandlers not yet visited
    sdCur,        \* the handler whose Shutdown() the caller is blocked in
    exitAfter,    \* Shutdown() was called by Fatal/Crash: os.Exit follows
    last,         \* the API call made last, when it was an emission (history)
    calls,        \* the Handler.Handle invocations of the last API call
    stagedMsgs,   \* messages staged since the last Error/Fatal/Crash (history)
    admitted,     \* some emission so far passed the level check (history)
    nemit,        \* emission calls so far: the next message is nemit + 1
    ncfg,         \* configuration calls so far
    nshut,        \* Shutdown() calls so far
    lim,          \* the bounds of the specification: [loggers, calls]
    sdCalls,      \* Handler.Shutdown() calls of the last Shutdown() (history)
    thr,          \* the goroutines of the concurrent specifications
    tf,           \* the TemplateFormatter of SpecFormat, its last result
    wfh,          \* the WatchedFileHandler of SpecWatch and its files
    recordPool    \* the Record objects of SpecPool and who holds them

vars == <<rootLogger, loggers, nodes, hs, pc, sdPending, sdCur, exitAfter,
          last, calls, stagedMsgs, admitted, nemit, ncfg, nshut, lim,
          sdCalls, thr, tf, wfh, recordPool>>

Range(s) == {s[i] : i \in 1..Len(s)}

\* ---------------------------------------------------------------- Logger

\* newLogger(parent, name, lvl, handlers...): the heap after the allocation;
\* the new Logger is the last element.
newLogger(ns, parent, name, lvl, handlers) ==
    LET log == [name |-> name, level |-> lvl, handlers |-> handlers,
                parent |-> parent, children |-> <<>>, staged |-> <<>>]
        id  == Len(ns) + 1
        ns1 == IF parent # 0
               THEN [ns EXCEPT ![parent].children = Append(@, id)]
               ELSE ns
    IN Append(ns1, log)

\* a Level() that looks at the parent only
LevelOfParent(ns, l) ==
    IF ns[l].level = INHERIT /\ ns[l].parent # 0
    THEN ns[ns[l].parent].level
    ELSE ns[l].level

\* Logger.Level(): as long as level is not set, ascend the ancestors
RECURSIVE Level(_, _)
Level(ns, l) ==
    IF ns[l].level = INHERIT /\ ns[l].parent # 0
    THEN Level(ns, ns[l].parent)
    ELSE ns[l].level

\* a Handlers() that leaves out the parents' handlers
HandlersOwn(ns, logger) ==
    IF logger = 0 THEN <<>> ELSE ns[logger].handlers

\* Logger.Handlers(): this and all its parents' handlers
RECURSIVE Handlers(_, _)
Handlers(ns, logger) ==
    IF logger = 0 THEN <<>>
    ELSE ns[logger].handlers \o Handlers(ns, ns[logger].parent)

\* ---------------------------------------------------------------- Handler

\* StreamHandler.Handle(rec): send a copy of *rec on commitChannel unless
\* the handler is shut down.  st.blocked: the send found the channel full.
Handle(st, h, rec, logger, idx, phase) ==
    LET call == [h |-> h, rec |-> rec, node |-> logger, idx |-> idx,
                 phase |-> phase, acc |-> ~st.hs[h].shutdown]
    IN IF ~st.hs[h].shutdown
       THEN IF Len(st.hs[h].commitChannel) < QueueCap
            THEN [st EXCEPT !.hs[h].commitChannel = Append(@, rec),
                            !.hs[h].accepted = Append(@, rec),
                            !.calls = Append(@, call)]
            ELSE [st EXCEPT !.blocked = TRUE]
       ELSE [st EXCEPT !.calls = Append(@, call)]

\* for _, handler := range logger.handlers { handler.Handle(rec) }
RECURSIVE invokeHandlers(_, _, _, _, _)
invokeHandlers(st, logger, rec, i, phase) ==
    IF i > Len(st.nodes[logger].handlers) THEN st
    ELSE invokeHandlers(
             Handle(st, st.nodes[logger].handlers[i], rec, logger, i, phase),
             logger, rec, i + 1, phase)

\* a loop body that stages the record at loggers without handlers too
visitStagesAnywhere(st, logger, rec, stage) ==
    IF stage
    THEN [st EXCEPT !.nodes[logger].staged = Append(@, rec)]
    ELSE invokeHandlers(st, logger, rec, 1, "log")

\* a loop body that makes a new Record at every logger with handlers
visitNewRecordEach(st, logger, rec, stage) ==
    IF Len(st.nodes[logger].handlers) > 0
    THEN IF stage
         THEN [st EXCEPT !.nodes[logger].staged = Append(@, rec),
                         !.recs = @ + 1]
         ELSE invokeHandlers([st EXCEPT !.recs = @ + 1], logger, rec, 1,
                             "log")
    ELSE st

\* the body of the ancestor loop of Logger.log: a logger with handlers stages
\* the record or hands it to its handlers; the Record is made at the first
\* such logger (if rec == nil), st.recs counting the Records made
visit(st, logger, rec, stage) ==
    IF Len(st.nodes[logger].handlers) > 0
    THEN LET st1 == [st EXCEPT !.recs = IF @ = 0 THEN 1 ELSE @]
         IN IF stage
            THEN [st1 EXCEPT !.nodes[logger].staged = Append(@, rec)]
            ELSE invokeHandlers(st1, logger, rec, 1, "log")
    ELSE st

\* an ancestor loop that serves the root first
RECURSIVE logWalkRootFirst(_, _, _, _)
logWalkRootFirst(st, logger, rec, stage) ==
    IF logger = 0 THEN st
    ELSE visit(logWalkRootFirst(st, st.nodes[logger].parent, rec, stage),
               logger, rec, stage)

\* an ancestor loop that ends at the first logger with handlers
RECURSIVE logWalkNearestOnly(_, _, _, _)
logWalkNearestOnly(st, logger, rec, stage) ==
    IF logger = 0 THEN st
    ELSE IF Len(st.nodes[logger].handlers) > 0
         THEN visit(st, logger, rec, stage)
         ELSE logWalkNearestOnly(st, st.nodes[logger].parent, rec, stage)

\* an ancestor loop whose staging branch hands the record to the handlers too
RECURSIVE logWalkStageLeaks(_, _, _, _)
logWalkStageLeaks(st, logger, rec, stage) ==
    IF logger = 0 THEN st
    ELSE logWalkStageLeaks(
             visit(visit(st, logger, rec, stage), logger, rec, FALSE),
             st.nodes[logger].parent, rec, stage)

\* the ancestor loop of Logger.log
RECURSIVE logWalk(_, _, _, _)
logWalk(st, logger, rec, stage) ==
    IF logger = 0 THEN st
    ELSE logWalk(visit(st, logger, rec, stage), st.nodes[logger].parent,
                 rec, stage)

\* a log that skips the level check
logAnyLevel(st, l, lvl, stage, message) ==
    logWalk(st, l,
            [Name |-> st.nodes[l].name, Level |-> lvl, Message |-> message],
            stage)

\* a log that tests the level field of the logger itself, not Level()
logOwnLevel(st, l, lvl, stage, message) ==
    IF lvl < st.nodes[l].level THEN st
    ELSE logWalk(st, l,
                 [Name |-> st.nodes[l].name, Level |-> lvl,
                  Message |-> message],
                 stage)

\* Logger.log(lvl, stage, message)
log(st, l, lvl, stage, message) ==
    IF lvl < Level(st.nodes, l) THEN st
    ELSE logWalk(st, l,
                 [Name |-> st.nodes[l].name, Level |-> lvl,
                  Message |-> message],
                 stage)

\* for _, rec := range logger.staged { for _, h := range logger.handlers ...
RECURSIVE flushRecords(_, _, _)
flushRecords(st, logger, r) ==
    IF r > Len(st.nodes[logger].staged) THEN st
    ELSE flushRecords(
             invokeHandlers(st, logger, st.nodes[logger].staged[r], 1,
                            "flush"),
             logger, r + 1)

\* a flushStaged that leaves the ancestors alone
flushStagedSelfOnly(st, logger) ==
    IF logger = 0 THEN st
    ELSE IF Len(st.nodes[logger].staged) > 0
         THEN [flushRecords(st, logger, 1) EXCEPT
                 !.nodes[logger].staged = <<>>]
         ELSE st

\* a flushStaged that leaves the flushed records in the buffers
RECURSIVE flushStagedKeeps(_, _)
flushStagedKeeps(st, logger) ==
    IF logger = 0 THEN st
    ELSE flushStagedKeeps(
             IF Len(st.nodes[logger].staged) > 0
             THEN flushRecords(st, logger, 1) ELSE st,
             st.nodes[logger].parent)

\* Logger.flushStaged(): this logger and all its ancestors
RECURSIVE flushStaged(_, _)
flushStaged(st, logger) ==
    IF logger = 0 THEN st
    ELSE LET st1 == IF Len(st.nodes[logger].staged) > 0
                    THEN [flushRecords(st, logger, 1) EXCEPT
                            !.nodes[logger].staged = <<>>]
                    ELSE st
         IN flushStaged(st1, st.nodes[logger].parent)

\* a clearStaged that hands the staged messages to the handlers
clearStagedFlushes(st, l) == flushStaged(st, l)

\* l.staged = l.staged[:0]
clearStaged(st, l) == [st EXCEPT !.nodes[l].staged = <<>>]

\* ---------------------------------------------------------------- Init

InitWith(maxLoggers, maxCalls) ==
    /\ rootLogger = 0
    /\ loggers = [n \in {} |-> 0]
    /\ nodes = <<>>
    /\ hs = <<>>
    /\ pc = "idle"
    /\ sdPending = {}
    /\ sdCur = 0
    /\ exitAfter = FALSE
    /\ last = [op |-> "none", node |-> 0, lvl |-> 0, msg |-> 0, recs |-> 0]
    /\ calls = <<>>
    /\ stagedMsgs = {}
    /\ admitted = FALSE
    /\ nemit = 0
    /\ ncfg = 0
    /\ nshut = 0
    /\ lim = [loggers |-> maxLoggers, calls |-> maxCalls]
    /\ sdCalls = <<>>
    /\ thr = <<>>
    /\ tf = <<>>
    /\ wfh = <<>>
    /\ recordPool = <<>>

\* the package after init(): no root logger, no loggers, no handlers
Init == InitWith(MaxLoggers, MaxCalls)

InitTree == InitWith(TreeLoggers, TreeCalls)

\* ---------------------------------------------------------------- registry

RootName == <<"r", "o", "o", "t">>

\* NewStreamHandler(writer): a handler without formatter, level 0, an open
\* empty commitChannel, its committer goroutine started; lost holds the
\* records whose formatting or writing failed
newStreamHandler ==
    [formatter |-> FALSE, level |-> 0, commitChannel |-> <<>>,
     closed |-> FALSE, shutdown |-> FALSE, sink |-> <<>>, cpc |-> "loop",
     accepted |-> <<>>, lost |-> <<>>]

\* createRootLogger() without handlers: a stderr StreamHandler with a
\* TemplateFormatter, and the root Logger at WARNING.  Result: heap, handlers.
createRootLogger(ns, hd) ==
    LET hd1 == Append(hd, [newStreamHandler EXCEPT !.formatter = TRUE])
    IN [nodes |-> newLogger(ns, 0, <<>>, WARNING, <<Len(hd1)>>),
        hs |-> hd1]

\* a name that always gets the separator in front of subName
childNameLeadingSep(name, subName) == Append(name, "/") \o subName

\* the name Logger.GetLogger looks up: l.name, "/" unless l.name is empty,
\* subName
childName(name, subName) ==
    (IF Len(name) > 0 THEN Append(name, "/") ELSE name) \o subName

\* an API call; recs: the Records the call made
API(op, l, lvl, msg) ==
    [op |-> op, node |-> l, lvl |-> lvl, msg |-> msg, recs |-> 0]

\* last, when the last API call was not an emission
NoCall == API("none", 0, 0, 0)

\* a call that is no emission
Setup ==
    /\ pc = "idle"
    /\ last' = NoCall
    /\ calls' = <<>>
    /\ UNCHANGED <<pc, sdPending, sdCur, exitAfter, stagedMsgs, admitted,
                   nemit, nshut, lim,
                   sdCalls, thr, tf, wfh, recordPool>>

\* func (l *Logger) GetLogger(subName string) *Logger
LoggerGetLogger(l, subName) ==
    LET loggerName == childName(nodes[l].name, subName)
        exists     == loggerName \in DOMAIN loggers
    IN /\ l \in 1..Len(nodes)
       /\ exists \/ Len(nodes) < lim.loggers
       /\ IF exists
          THEN UNCHANGED <<nodes, loggers>>
          ELSE /\ nodes' = newLogger(nodes, l, loggerName, INHERIT, <<>>)
               /\ loggers' = [n \in DOMAIN loggers \cup {loggerName} |->
                                IF n = loggerName THEN Len(nodes) + 1
                                ELSE loggers[n]]
       /\ Setup
       /\ UNCHANGED <<rootLogger, hs, ncfg>>

\* the Logger that l.GetLogger(subName) returns, read in the state after the
\* call: the registered Logger of that name
LoggerGetLoggerRet(l, subName) == loggers[childName(nodes[l].name, subName)]

\* the Logger that l.GetLogger(subName) would return if called now: the
\* registered one, else a new Logger
LoggerGetLoggerNow(l, subName) ==
    IF childName(nodes[l].name, subName) \in DOMAIN loggers
    THEN loggers[childName(nodes[l].name, subName)]
    ELSE Len(nodes) + 1

\* the Logger that the package-level GetLogger(name...) returns, read in the
\* state after the call
GetLoggerRet(name) ==
    IF Len(name) > 0 /\ ~(Len(name) = 1 /\ name[1] = RootName)
    THEN LoggerGetLoggerRet(rootLogger, name[1])
    ELSE rootLogger

\* func GetLogger(name ...string) *Logger
GetLogger(name) ==
    LET sub    == Len(name) > 0 /\ ~(Len(name) = 1 /\ name[1] = RootName)
        made   == IF rootLogger = 0
                  THEN createRootLogger(nodes, hs)
                  ELSE [nodes |-> nodes, hs |-> hs]
        root   == IF rootLogger = 0 THEN Len(made.nodes) ELSE rootLogger
        loggerName == childName(made.nodes[root].name, name[1])
        exists == loggerName \in DOMAIN loggers
    IN /\ Len(made.hs) <= MaxHandlers
       /\ Len(made.nodes) + (IF sub /\ ~exists THEN 1 ELSE 0) <= lim.loggers
       /\ rootLogger' = root
       /\ hs' = made.hs
       /\ IF sub /\ ~exists
          THEN /\ nodes' = newLogger(made.nodes, root, loggerName, INHERIT,
                                     <<>>)
               /\ loggers' = [n \in DOMAIN loggers \cup {loggerName} |->
                                IF n = loggerName THEN Len(made.nodes) + 1
                                ELSE loggers[n]]
          ELSE /\ nodes' = made.nodes
               /\ UNCHANGED loggers
       /\ Setup
       /\ UNCHANGED ncfg

\* ---------------------------------------------------------------- setup

\* a configuration call, counted
Config ==
    /\ ncfg + nemit < lim.calls
    /\ ncfg' = ncfg + 1
    /\ Setup
    /\ UNCHANGED <<rootLogger, loggers>>

\* func (l *Logger) SetLevel(lvl Level)
SetLevel(l, lvl) ==
    /\ l \in 1..Len(nodes)
    /\ nodes' = [nodes EXCEPT ![l].level = lvl]
    /\ UNCHANGED hs
    /\ Config

\* an AddHandler that does not look at the formatter
addHandlerUnchecked(handlers, handler) == Append(handlers, handler)

\* the error AddHandler(handler) returns
addHandlerErr(handler) ==
    IF ~hs[handler].formatter THEN "ErrNoFormatter" ELSE "nil"

\* the handler list after AddHandler(handler): ErrNoFormatter leaves it
addHandler(handlers, handler) ==
    IF ~hs[handler].formatter THEN handlers ELSE Append(handlers, handler)

\* func (l *Logger) AddHandler(handler Handler) error
AddHandler(l, handler) ==
    /\ l \in 1..Len(nodes)
    /\ handler \in 1..Len(hs)
    /\ nodes' = [nodes EXCEPT ![l].handlers = addHandler(@, handler)]
    /\ UNCHANGED hs
    /\ Config

\* func (l *Logger) RemoveHandlers()
RemoveHandlers(l) ==
    /\ l \in 1..Len(nodes)
    /\ nodes' = [nodes EXCEPT ![l].handlers = <<>>]
    /\ UNCHANGED hs
    /\ Config

\* func (l *Logger) ReplaceHandlers(handler Handler)
ReplaceHandlers(l, handler) ==
    /\ l \in 1..Len(nodes)
    /\ handler \in 1..Len(hs)
    /\ nodes' = [nodes EXCEPT ![l].handlers = addHandler(<<>>, handler)]
    /\ UNCHANGED hs
    /\ Config

\* func NewStreamHandler(writer io.Writer) (*StreamHandler, error)
NewStreamHandler ==
    /\ Len(hs) < MaxHandlers
    /\ hs' = Append(hs, newStreamHandler)
    /\ Setup
    /\ UNCHANGED <<rootLogger, loggers, nodes, ncfg>>

\* func (h *StreamHandler) SetFormatter(formatter Formatter), with a
\* TemplateFormatter
SetFormatter(h) ==
    /\ h \in 1..Len(hs)
    /\ hs' = [hs EXCEPT ![h].formatter = TRUE]
    /\ Setup
    /\ UNCHANGED <<rootLogger, loggers, nodes, ncfg>>

\* func (h *StreamHandler) SetLevel(level int)
HandlerSetLevel(h, level) ==
    /\ h \in 1..Len(hs)
    /\ hs' = [hs EXCEPT ![h].level = level]
    /\ UNCHANGED nodes
    /\ Config

\* ---------------------------------------------------------------- shutdown

\* a collection that takes the handlers of the logger alone, not of its
\* children
collectHandlersOwn(ns, logger) ==
    IF logger = 0 THEN {} ELSE Range(ns[logger].handlers)

\* collectHandlers(log, uniqueHandlers): the keys are the handler pointers
RECURSIVE collectHandlers(_, _)
collectHandlers(ns, logger) ==
    IF logger = 0 THEN {}
    ELSE UNION {collectHandlers(ns, ns[logger].children[i]) :
                    i \in 1..Len(ns[logger].children)}
         \cup Range(ns[logger].handlers)

\* func Shutdown(): collect the unique handlers, then shut them all down
Shutdown ==
    /\ pc = "idle"
    /\ nshut < MaxShutdown
    /\ nshut' = nshut + 1
    /\ sdPending' = collectHandlers(nodes, rootLogger)
    /\ pc' = "shutdown"
    /\ exitAfter' = FALSE
    /\ last' = NoCall
    /\ calls' = <<>>
    /\ sdCalls' = <<>>
    /\ UNCHANGED <<rootLogger, loggers, nodes, hs, sdCur, stagedMsgs,
                   admitted, nemit, ncfg, lim, thr, tf, wfh, recordPool>>

\* one more Shutdown() call on handler h
called(f, h) ==
    [k \in DOMAIN f \cup {h} |->
        IF k # h THEN f[k] ELSE IF h \in DOMAIN f THEN f[h] + 1 ELSE 1]

\* shutdownHandlers: the next h.Shutdown() of the loop, in map order.
\* StreamHandler.Shutdown(): set shutdown, close commitChannel and wait for
\* committerDone; nothing when already shut down.
shutdownHandlers(h) ==
    /\ pc = "shutdown"
    /\ h \in sdPending
    /\ IF ~hs[h].shutdown
       THEN /\ hs' = [hs EXCEPT ![h].shutdown = TRUE, ![h].closed = TRUE]
            /\ pc' = "wait"
            /\ sdCur' = h
            /\ UNCHANGED sdPending
       ELSE /\ sdPending' = sdPending \ {h}
            /\ UNCHANGED <<hs, pc, sdCur>>
    /\ sdCalls' = called(sdCalls, h)
    /\ UNCHANGED <<rootLogger, loggers, nodes, exitAfter, last, calls,
                   stagedMsgs, admitted, nemit, ncfg, nshut, lim, thr, tf, wfh, recordPool>>

\* a Shutdown that returns after close(h.commitChannel) without the receive
\* from committerDone
committerDoneNoWait ==
    /\ pc = "wait"
    /\ sdPending' = sdPending \ {sdCur}
    /\ sdCur' = 0
    /\ pc' = "shutdown"
    /\ UNCHANGED <<rootLogger, loggers, nodes, hs, exitAfter, last, calls,
                   stagedMsgs, admitted, nemit, ncfg, nshut, lim,
                   sdCalls, thr, tf, wfh, recordPool>>

\* <-h.committerDone in StreamHandler.Shutdown meets
\* h.committerDone <- true at the end of committer
committerDone ==
    /\ pc = "wait"
    /\ hs[sdCur].cpc = "done"
    /\ hs' = [hs EXCEPT ![sdCur].cpc = "exit"]
    /\ sdPending' = sdPending \ {sdCur}
    /\ sdCur' = 0
    /\ pc' = "shutdown"
    /\ UNCHANGED <<rootLogger, loggers, nodes, exitAfter, last, calls,
                   stagedMsgs, admitted, nemit, ncfg, nshut, lim,
                   sdCalls, thr, tf, wfh, recordPool>>

\* Shutdown() returns; after Fatal and Crash, os.Exit ends the process
ShutdownReturn ==
    /\ pc = "shutdown"
    /\ sdPending = {}
    /\ pc' = IF exitAfter THEN "exited" ELSE "idle"
    /\ UNCHANGED <<rootLogger, loggers, nodes, hs, sdPending, sdCur,
                   exitAfter, last, calls, stagedMsgs, admitted, nemit,
                   ncfg, nshut, lim,
                   sdCalls, thr, tf, wfh, recordPool>>

\* ---------------------------------------------------------------- committer

\* a committer that takes the newest record of the channel
committerNewestFirst(h) ==
    /\ pc # "exited"
    /\ h \in 1..Len(hs)
    /\ hs[h].cpc = "loop"
    /\ Len(hs[h].commitChannel) > 0
    /\ hs' = [hs EXCEPT
                ![h].commitChannel = SubSeq(@, 1, Len(@) - 1),
                ![h].sink = Append(@, hs[h].commitChannel[
                                          Len(hs[h].commitChannel)])]
    /\ UNCHANGED <<rootLogger, loggers, nodes, pc, sdPending, sdCur,
                   exitAfter, last, calls, stagedMsgs, admitted, nemit,
                   ncfg, nshut, lim, sdCalls, thr, tf, wfh, recordPool>>

\* committer: one iteration of for rec := range h.commitChannel: format the
\* record, append the line to the writer
committer(h) ==
    /\ pc # "exited"
    /\ h \in 1..Len(hs)
    /\ hs[h].cpc = "loop"
    /\ Len(hs[h].commitChannel) > 0
    /\ hs' = [hs EXCEPT ![h].commitChannel = Tail(@),
                        ![h].sink = Append(@, Head(hs[h].commitChannel))]
    /\ UNCHANGED <<rootLogger, loggers, nodes, pc, sdPending, sdCur,
                   exitAfter, last, calls, stagedMsgs, admitted, nemit,
                   ncfg, nshut, lim,
                   sdCalls, thr, tf, wfh, recordPool>>

\* committer: one iteration in which h.Formatter().Format(&rec) returns an
\* error: the error is printed to stderr and committer returns, without the
\* send on committerDone
committerFormatError(h) ==
    /\ pc # "exited"
    /\ h \in 1..Len(hs)
    /\ hs[h].cpc = "loop"
    /\ Len(hs[h].commitChannel) > 0
    /\ hs' = [hs EXCEPT ![h].commitChannel = Tail(@),
                        ![h].lost = Append(@, Head(hs[h].commitChannel)),
                        ![h].cpc = "returned"]
    /\ UNCHANGED <<rootLogger, loggers, nodes, pc, sdPending, sdCur,
                   exitAfter, last, calls, stagedMsgs, admitted, nemit,
                   ncfg, nshut, lim, sdCalls, thr, tf, wfh, recordPool>>

\* committer: one iteration in which h.writer.Write(msg) returns an error:
\* the error is printed to stderr and the loop goes on
committerWriteError(h) ==
    /\ pc # "exited"
    /\ h \in 1..Len(hs)
    /\ hs[h].cpc = "loop"
    /\ Len(hs[h].commitChannel) > 0
    /\ hs' = [hs EXCEPT ![h].commitChannel = Tail(@),
                        ![h].lost = Append(@, Head(hs[h].commitChannel))]
    /\ UNCHANGED <<rootLogger, loggers, nodes, pc, sdPending, sdCur,
                   exitAfter, last, calls, stagedMsgs, admitted, nemit,
                   ncfg, nshut, lim, sdCalls, thr, tf, wfh, recordPool>>

\* a committer whose loop ends as soon as the channel is closed, whatever is
\* still queued
committerEndAtClose(h) ==
    /\ pc # "exited"
    /\ h \in 1..Len(hs)
    /\ hs[h].cpc = "loop"
    /\ hs[h].closed
    /\ hs' = [hs EXCEPT ![h].cpc = "done"]
    /\ UNCHANGED <<rootLogger, loggers, nodes, pc, sdPending, sdCur,
                   exitAfter, last, calls, stagedMsgs, admitted, nemit,
                   ncfg, nshut, lim, sdCalls, thr, tf, wfh, recordPool>>

\* a committer whose loop ends on an empty channel that is still open, and
\* not on a closed one
committerEndWhileOpen(h) ==
    /\ pc # "exited"
    /\ h \in 1..Len(hs)
    /\ hs[h].cpc = "loop"
    /\ Len(hs[h].commitChannel) = 0
    /\ ~hs[h].closed
    /\ hs' = [hs EXCEPT ![h].cpc = "done"]
    /\ UNCHANGED <<rootLogger, loggers, nodes, pc, sdPending, sdCur,
                   exitAfter, last, calls, stagedMsgs, admitted, nemit,
                   ncfg, nshut, lim, sdCalls, thr, tf, wfh, recordPool>>

\* committer: the range loop ends on the closed, drained channel
committerEnd(h) ==
    /\ pc # "exited"
    /\ h \in 1..Len(hs)
    /\ hs[h].cpc = "loop"
    /\ Len(hs[h].commitChannel) = 0
    /\ hs[h].closed
    /\ hs' = [hs EXCEPT ![h].cpc = "done"]
    /\ UNCHANGED <<rootLogger, loggers, nodes, pc, sdPending, sdCur,
                   exitAfter, last, calls, stagedMsgs, admitted, nemit,
                   ncfg, nshut, lim,
                   sdCalls, thr, tf, wfh, recordPool>>

\* ---------------------------------------------------------------- goroutines

\* what no goroutine step changes
Others == <<rootLogger, loggers, sdPending, sdCur, exitAfter, last, calls,
            stagedMsgs, admitted, nemit, ncfg, nshut, lim, sdCalls, tf, wfh, recordPool>>

\* no record
NoRec == [Name |-> <<>>, Level |-> 0, Message |-> 0]

\* a goroutine that calls Info on one logger, message after message
Emitter(l) ==
    [kind |-> "emit", pc |-> "idle", logger |-> l, h |-> 0, n |-> 0,
     todo |-> <<>>, rec |-> NoRec]

\* a goroutine that calls Shutdown() on handler h
Closer(h) ==
    [kind |-> "close", pc |-> "idle", logger |-> 0, h |-> h, n |-> 0,
     todo |-> <<>>, rec |-> NoRec]

\* a panic of a goroutine ends the process
Running == pc # "exited"

\* Logger.Info of goroutine t: clear the staged records, then Logger.log up
\* to the ancestor loop: the level check, the record, the handlers to call in
\* the order of the walk
InfoBegin(t) ==
    LET l == thr[t].logger
    IN /\ Running
       /\ t \in 1..Len(thr)
       /\ thr[t].kind = "emit"
       /\ thr[t].pc = "idle"
       /\ thr[t].n < lim.calls
       /\ nodes' = [nodes EXCEPT ![l].staged = <<>>]
       /\ IF INFO < Level(nodes, l)
          THEN thr' = [thr EXCEPT ![t].n = @ + 1]
          ELSE thr' = [thr EXCEPT
                         ![t].pc = "handle",
                         ![t].todo = Handlers(nodes, l),
                         ![t].rec = [Name |-> nodes[l].name, Level |-> INFO,
                                     Message |-> thr[t].n + 1]]
       /\ UNCHANGED <<hs, pc, Others>>

\* StreamHandler.Handle of goroutine t, the test if !h.shutdown; when no
\* handler is left Logger.log and Info return
HandleCheck(t) ==
    /\ Running
    /\ t \in 1..Len(thr)
    /\ thr[t].pc = "handle"
    /\ IF thr[t].todo = <<>>
       THEN thr' = [thr EXCEPT ![t].pc = "idle", ![t].n = @ + 1,
                               ![t].rec = NoRec]
       ELSE IF hs[Head(thr[t].todo)].shutdown
            THEN thr' = [thr EXCEPT ![t].todo = Tail(@)]
            ELSE thr' = [thr EXCEPT ![t].pc = "send"]
    /\ UNCHANGED <<nodes, hs, pc, Others>>

\* a Handle whose send gives the record up when the channel is full
HandleSendOrDrop(t) ==
    LET h == Head(thr[t].todo)
    IN /\ Running
       /\ t \in 1..Len(thr)
       /\ thr[t].pc = "send"
       /\ IF hs[h].closed
          THEN /\ thr' = [thr EXCEPT ![t].pc = "panicSend"]
               /\ pc' = "exited"
               /\ UNCHANGED hs
          ELSE /\ IF Len(hs[h].commitChannel) < QueueCap
                  THEN hs' = [hs EXCEPT
                                ![h].commitChannel = Append(@, thr[t].rec),
                                ![h].accepted = Append(@, thr[t].rec)]
                  ELSE UNCHANGED hs
               /\ thr' = [thr EXCEPT ![t].pc = "handle",
                                     ![t].todo = Tail(@)]
               /\ UNCHANGED pc
       /\ UNCHANGED <<nodes, Others>>

\* StreamHandler.Handle of goroutine t, the send h.commitChannel <- *rec: it
\* waits while the channel is full and panics on a closed channel
HandleSend(t) ==
    LET h == Head(thr[t].todo)
    IN /\ Running
       /\ t \in 1..Len(thr)
       /\ thr[t].pc = "send"
       /\ IF hs[h].closed
          THEN /\ thr' = [thr EXCEPT ![t].pc = "panicSend"]
               /\ pc' = "exited"
               /\ UNCHANGED hs
          ELSE /\ Len(hs[h].commitChannel) < QueueCap
               /\ hs' = [hs EXCEPT
                            ![h].commitChannel = Append(@, thr[t].rec),
                            ![h].accepted = Append(@, thr[t].rec)]
               /\ thr' = [thr EXCEPT ![t].pc = "handle",
                                     ![t].todo = Tail(@)]
               /\ UNCHANGED pc
       /\ UNCHANGED <<nodes, Others>>

\* StreamHandler.Shutdown of goroutine t, the test if !h.shutdown; on a
\* handler that is shut down the call returns
HShutdownCheck(t) ==
    /\ Running
    /\ t \in 1..Len(thr)
    /\ thr[t].kind = "close"
    /\ thr[t].pc = "idle"
    /\ thr[t].n < ShutdownCalls
    /\ IF hs[thr[t].h].shutdown
       THEN thr' = [thr EXCEPT ![t].n = @ + 1]
       ELSE thr' = [thr EXCEPT ![t].pc = "close"]
    /\ UNCHANGED <<nodes, hs, pc, Others>>

\* StreamHandler.Shutdown of goroutine t: h.shutdown = true and
\* close(h.commitChannel), which panics on a closed channel
HShutdownClose(t) ==
    LET h == thr[t].h
    IN /\ Running
       /\ t \in 1..Len(thr)
       /\ thr[t].pc = "close"
       /\ IF hs[h].closed
          THEN /\ thr' = [thr EXCEPT ![t].pc = "panicClose"]
               /\ pc' = "exited"
               /\ UNCHANGED hs
          ELSE /\ hs' = [hs EXCEPT ![h].shutdown = TRUE, ![h].closed = TRUE]
               /\ thr' = [thr EXCEPT ![t].pc = "wait"]
               /\ UNCHANGED pc
       /\ UNCHANGED <<nodes, Others>>

\* StreamHandler.Shutdown of goroutine t: <-h.committerDone, then return
HShutdownWait(t) ==
    LET h == thr[t].h
    IN /\ Running
       /\ t \in 1..Len(thr)
       /\ thr[t].pc = "wait"
       /\ hs[h].cpc = "done"
       /\ hs' = [hs EXCEPT ![h].cpc = "exit"]
       /\ thr' = [thr EXCEPT ![t].pc = "idle", ![t].n = @ + 1]
       /\ UNCHANGED <<nodes, pc, Others>>

\* every emitting goroutine has returned from its last call: wg.Wait() returns
WaitGroupDone ==
    \A t \in 1..Len(thr) :
        thr[t].kind = "emit" => thr[t].pc = "idle" /\ thr[t].n = lim.calls

\* the main goroutine: wg.Wait(); Shutdown()
MainShutdown == WaitGroupDone /\ Shutdown

\* the names of the loggers of the emitting goroutines
WorkerName(i) == <<"t", <<"1", "2", "3", "4">>[i]>>

\* the loggers of w emitting goroutines, as GetLogger(name) makes them below
\* the root
RECURSIVE WorkerLoggers(_, _)
WorkerLoggers(ns, w) ==
    IF w = 0 THEN ns
    ELSE newLogger(WorkerLoggers(ns, w - 1), 1, WorkerName(w), INHERIT, <<>>)

\* BasicConfig with Level DEBUG and one writer, GetLogger(name) for each of w
\* emitting goroutines, which log n messages each; c goroutines that call
\* Shutdown() on the handler of the root
InitGoroutines(w, n, c) ==
    LET made == createRootLogger(<<>>, <<>>)
    IN /\ rootLogger = 1
       /\ nodes = [WorkerLoggers(made.nodes, w) EXCEPT ![1].level = DEBUG]
       /\ loggers = [name \in {WorkerName(i) : i \in 1..w} |->
                       1 + CHOOSE i \in 1..w : WorkerName(i) = name]
       /\ hs = made.hs
       /\ pc = "idle"
       /\ sdPending = {}
       /\ sdCur = 0
       /\ exitAfter = FALSE
       /\ last = NoCall
       /\ calls = <<>>
       /\ stagedMsgs = {}
       /\ admitted = FALSE
       /\ nemit = 0
       /\ ncfg = 0
       /\ nshut = 0
       /\ lim = [loggers |-> w + 1, calls |-> n]
       /\ sdCalls = <<>>
       /\ thr = [t \in 1..(w + c) |->
                   IF t <= w THEN Emitter(t + 1) ELSE Closer(1)]
       /\ tf = <<>>
       /\ wfh = <<>>
       /\ recordPool = <<>>

InitConc == InitGoroutines(Workers, PerWorker, Closers)

NextConc ==
    \/ \E t \in 1..(Workers + Closers) : InfoBegin(t)
    \/ \E t \in 1..(Workers + Closers) : HandleCheck(t)
    \/ \E t \in 1..(Workers + Closers) : HandleSend(t)
    \/ \E t \in 1..(Workers + Closers) : HShutdownCheck(t)
    \/ \E t \in 1..(Workers + Closers) : HShutdownClose(t)
    \/ \E t \in 1..(Workers + Closers) : HShutdownWait(t)
    \/ MainShutdown
    \/ \E h \in 1..MaxHandlers : shutdownHandlers(h)
    \/ committerDone
    \/ ShutdownReturn
    \/ \E h \in 1..MaxHandlers : committer(h)
    \/ \E h \in 1..MaxHandlers : committerEnd(h)

SpecConc == InitConc /\ [][NextConc]_vars

\* one goroutine that logs more messages than commitChannel holds
BurstLen == QueueCap + 2

InitQueue == InitGoroutines(1, BurstLen, 0)

NextQueue ==
    \/ InfoBegin(1)
    \/ HandleCheck(1)
    \/ HandleSend(1)
    \/ MainShutdown
    \/ \E h \in 1..MaxHandlers : shutdownHandlers(h)
    \/ committerDone
    \/ ShutdownReturn
    \/ \E h \in 1..MaxHandlers : committer(h)
    \/ \E h \in 1..MaxHandlers : committerEnd(h)

\* the committer goroutine is scheduled as long as it can receive
SpecQueue ==
    /\ InitQueue
    /\ [][NextQueue]_vars
    /\ WF_vars(\E h \in 1..MaxHandlers : committer(h))

\* one goroutine that logs a few messages to a handler whose formatter and
\* writer may fail
FailCalls == 3

InitFail == InitGoroutines(1, FailCalls, 0)

\* one iteration of the committer, with or without an error
committerAny(h) ==
    \/ committer(h)
    \/ committerFormatError(h)
    \/ committerWriteError(h)

NextFail ==
    \/ InfoBegin(1)
    \/ HandleCheck(1)
    \/ HandleSend(1)
    \/ MainShutdown
    \/ \E h \in 1..MaxHandlers : shutdownHandlers(h)
    \/ committerDone
    \/ ShutdownReturn
    \/ \E h \in 1..MaxHandlers : committer(h)
    \/ \E h \in 1..MaxHandlers : committerFormatError(h)
    \/ \E h \in 1..MaxHandlers : committerWriteError(h)
    \/ \E h \in 1..MaxHandlers : committerEnd(h)

\* the committer goroutine is scheduled as long as it can receive
SpecFail ==
    /\ InitFail
    /\ [][NextFail]_vars
    /\ WF_vars(\E h \in 1..MaxHandlers : committerAny(h))

\* ---------------------------------------------------------------- formatter

\* Strings are sequences of symbols.  A symbol is one character, except that
\* the words of TokenWords stand for their letters: they hold no brace, no
\* alignment character and no digit, which is all the two patterns look at.
TokenWords == {"time", "timems", "name", "basename", "level", "message",
               "bogus"}

DigitSyms == {"0", "1", "2", "3", "4", "5", "6", "7", "8", "9"}

AlignSyms == {"<", ">"}

\* the token values of the const block and tokenToValue
tfTime == 0
tfTimeMilliseconds == 1
tfName == 2
tfBaseName == 3
tfLevel == 4
tfMessage == 5
tfFieldWidth == 256
tfFieldWidthShift == 8
tfAlignRight == 65536

tokenToValue ==
    [w \in {<<"time">>, <<"timems">>, <<"name">>, <<"basename">>,
            <<"level">>, <<"message">>} |->
        CASE w = <<"time">> -> tfTime
          [] w = <<"timems">> -> tfTimeMilliseconds
          [] w = <<"name">> -> tfName
          [] w = <<"basename">> -> tfBaseName
          [] w = <<"level">> -> tfLevel
          [] w = <<"message">> -> tfMessage]

\* the positions i where templatePtn \{[^}]+\} matches at i, at or after from
MatchStarts(t, from) ==
    {i \in from..Len(t) :
        /\ t[i] = "{"
        /\ \E j \in (i + 2)..Len(t) :
              t[j] = "}" /\ \A k \in (i + 1)..(j - 1) : t[k] # "}"}

\* the end of the match that starts at i: the first "}" behind i
MatchEnd(t, i) ==
    CHOOSE j \in (i + 2)..Len(t) :
        t[j] = "}" /\ \A k \in (i + 1)..(j - 1) : t[k] # "}"

\* templatePtn.FindAllStringIndex(template, -1): the leftmost matches that do
\* not overlap, as <<first, last>> positions
RECURSIVE FindAllStringIndex(_, _)
FindAllStringIndex(t, from) ==
    IF MatchStarts(t, from) = {} THEN <<>>
    ELSE LET i == CHOOSE m \in MatchStarts(t, from) :
                      \A n \in MatchStarts(t, from) : m <= n
         IN <<<<i, MatchEnd(t, i)>>>>
                \o FindAllStringIndex(t, MatchEnd(t, i) + 1)

\* templateSpecPtn ^\{([^}]+?)(([<>])(\d+))?\}$ on an item, given what is
\* between its braces: the token, the alignment, the width digits
FindStringSubmatch(inner) ==
    LET cut == {a \in 2..(Len(inner) - 1) :
                   /\ inner[a] \in AlignSyms
                   /\ \A k \in (a + 1)..Len(inner) : inner[k] \in DigitSyms}
    IN IF cut = {}
       THEN [token |-> inner, alignment |-> <<>>, width |-> <<>>]
       ELSE LET a == CHOOSE c \in cut : TRUE
            IN [token |-> SubSeq(inner, 1, a - 1),
                alignment |-> <<inner[a]>>,
                width |-> SubSeq(inner, a + 1, Len(inner))]

DigitValue(d) ==
    CASE d = "0" -> 0 [] d = "1" -> 1 [] d = "2" -> 2 [] d = "3" -> 3
      [] d = "4" -> 4 [] d = "5" -> 5 [] d = "6" -> 6 [] d = "7" -> 7
      [] d = "8" -> 8 [] d = "9" -> 9

\* strconv.Atoi of a string of digits
RECURSIVE Atoi(_)
Atoi(ds) ==
    IF ds = <<>> THEN 0
    ELSE 10 * Atoi(SubSeq(ds, 1, Len(ds) - 1)) + DigitValue(ds[Len(ds)])

StrToken(str) == [int |-> FALSE, s |-> str, v |-> 0]

IntToken(v) == [int |-> TRUE, s |-> <<>>, v |-> v]

\* the width and alignment tokens SetFormat appends for one item
WidthTokens(spec) ==
    IF Len(spec.alignment) > 0 /\ Len(spec.width) > 0 /\ Atoi(spec.width) > 0
    THEN LET w0 == Atoi(spec.width)
             w  == IF w0 > 254 THEN 254 ELSE w0
         IN <<IntToken(tfFieldWidth + (w - 1) * (2 ^ tfFieldWidthShift))>>
            \o (IF spec.alignment = <<">">>
                THEN <<IntToken(tfAlignRight)>> ELSE <<>>)
    ELSE <<>>

\* a compilation that leaves out the items with an unknown token
RECURSIVE compileSkippingUnknown(_, _, _, _, _)
compileSkippingUnknown(t, m, k, lastEnd, tokens) ==
    IF k > Len(m) THEN [err |-> "nil", tokens |-> tokens]
    ELSE LET spec == FindStringSubmatch(SubSeq(t, m[k][1] + 1, m[k][2] - 1))
             lit  == IF m[k][1] > lastEnd + 1
                     THEN <<StrToken(SubSeq(t, lastEnd + 1, m[k][1] - 1))>>
                     ELSE <<>>
         IN IF spec.token \notin DOMAIN tokenToValue
            THEN compileSkippingUnknown(t, m, k + 1, m[k][2], tokens \o lit)
            ELSE compileSkippingUnknown(t, m, k + 1, m[k][2],
                     tokens \o lit \o WidthTokens(spec)
                            \o <<IntToken(tokenToValue[spec.token])>>)

\* the loop of SetFormat over the matches m from index k on: the compiled
\* tokens, or the error of the first unknown token
RECURSIVE compileFrom(_, _, _, _, _)
compileFrom(t, m, k, lastEnd, tokens) ==
    IF k > Len(m) THEN [err |-> "nil", tokens |-> tokens]
    ELSE LET start == m[k][1]
             end   == m[k][2]
             lit   == IF start > lastEnd + 1
                      THEN <<StrToken(SubSeq(t, lastEnd + 1, start - 1))>>
                      ELSE <<>>
             spec  == FindStringSubmatch(SubSeq(t, start + 1, end - 1))
         IN IF spec.token \notin DOMAIN tokenToValue
            THEN [err |-> "unknown format template token", tokens |-> <<>>]
            ELSE compileFrom(t, m, k + 1, end,
                     tokens \o lit \o WidthTokens(spec)
                            \o <<IntToken(tokenToValue[spec.token])>>)

\* the body of SetFormat: the error and, without error, the new formatTokens
compile(t) ==
    LET m == FindAllStringIndex(t, 1)
    IN IF m = <<>>
       THEN [err |-> "invalid format template string", tokens |-> <<>>]
       ELSE compileFrom(t, m, 1, 0, <<>>)

\* n spaces
Spaces(n) == [i \in 1..n |-> " "]

\* fmt.Sprintf("%-<w>s", str) and fmt.Sprintf("%<w>s", str)
SprintfLeft(w, str) ==
    IF Len(str) >= w THEN str ELSE str \o Spaces(w - Len(str))

SprintfRight(w, str) ==
    IF Len(str) >= w THEN str ELSE Spaces(w - Len(str)) \o str

\* the decimal digits of n, at least w of them: fmt's %0<w>d
RECURSIVE Decimal(_, _)
Decimal(n, w) ==
    LET d == <<"0", "1", "2", "3", "4", "5", "6", "7", "8", "9">>[(n % 10) + 1]
    IN IF n < 10 /\ w <= 1 THEN <<d>>
       ELSE Append(Decimal(n \div 10, w - 1), d)

\* formatTime(t, resolution...)
formatTime(t, resolution) ==
    LET ts == Decimal(t.Year, 4) \o <<"-">> \o Decimal(t.Month, 2) \o <<"-">>
              \o Decimal(t.Day, 2) \o <<" ">> \o Decimal(t.Hour, 2)
              \o <<":">> \o Decimal(t.Minute, 2) \o <<":">>
              \o Decimal(t.Second, 2)
    IN IF resolution = <<1000>>
       THEN ts \o <<".">> \o Decimal(t.Nanosecond \div 1000000, 3)
       ELSE ts

\* LevelName(l), for the levels of levelToName
LevelName(l) ==
    CASE l = INHERIT -> <<"I", "N", "H", "E", "R", "I", "T">>
      [] l = TRACE   -> <<"T", "R", "A", "C", "E">>
      [] l = DEBUG   -> <<"D", "E", "B", "U", "G">>
      [] l = INFO    -> <<"I", "N", "F", "O">>
      [] l = WARNING -> <<"W", "A", "R", "N", "I", "N", "G">>
      [] l = ERROR   -> <<"E", "R", "R", "O", "R">>
      [] l = FATAL   -> <<"F", "A", "T", "A", "L">>

\* the last part of strings.Split(name, "/")
BaseName(name) ==
    LET seps == {i \in 1..Len(name) : name[i] = "/"}
    IN IF seps = {} THEN name
       ELSE SubSeq(name,
                   (CHOOSE i \in seps : \A j \in seps : j <= i) + 1,
                   Len(name))

\* token&tfFieldWidthMask and token&tfAlignRight
FieldWidthOf(token) == (token \div (2 ^ tfFieldWidthShift)) % 256

AlignRightBit(token) == (token \div tfAlignRight) % 2

\* the value s that the switch of Format computes for an int token
TokenValue(token, r) ==
    CASE token = tfTime -> formatTime(r.Time, <<1000>>)
      [] token = tfName ->
           IF Len(r.Name) = 0 THEN <<"r", "o", "o", "t">> ELSE r.Name
      [] token = tfBaseName ->
           IF Len(r.Name) = 0 THEN <<"r", "o", "o", "t">>
           ELSE BaseName(r.Name)
      [] token = tfLevel -> LevelName(r.Level)
      [] token = tfMessage -> r.Message
      [] OTHER -> <<>>

\* one iteration of the loop of Format; st is [parts, align, width], align
\* being "" while alignFmt is empty, else "-" or "+" for %-<w>s and %<w>s
formatToken(st, token, r) ==
    IF ~token.int THEN [st EXCEPT !.parts = @ \o token.s]
    ELSE LET isValue == token.v \in {tfTime, tfName, tfBaseName, tfLevel,
                                      tfMessage}
             isWidth == ~isValue /\ FieldWidthOf(token.v) > 0
             st1 == IF isWidth
                    THEN [st EXCEPT
                            !.width = FieldWidthOf(token.v),
                            !.align = IF AlignRightBit(token.v) > 0
                                      THEN "+" ELSE "-"]
                    ELSE st
             s0  == TokenValue(token.v, r)
         IN IF Len(s0) > 0
            THEN IF st1.align # ""
                 THEN LET s1 == IF st1.align = "+"
                                THEN SprintfRight(st1.width, s0)
                                ELSE SprintfLeft(st1.width, s0)
                          s2 == IF Len(s1) > st1.width
                                THEN SubSeq(s1, 1, st1.width) ELSE s1
                      IN [parts |-> st1.parts \o s2, align |-> "",
                          width |-> 0]
                 ELSE [st1 EXCEPT !.parts = @ \o s0]
            ELSE st1

RECURSIVE formatFrom(_, _, _, _)
formatFrom(st, tokens, k, r) ==
    IF k > Len(tokens) THEN st
    ELSE formatFrom(formatToken(st, tokens[k], r), tokens, k + 1, r)

\* TemplateFormatter.Format(r) without level coloring, which is off unless
\* enabled, and with the default processMessage: the line
Format(tokens, r) ==
    formatFrom([parts |-> <<>>, align |-> "", width |-> 0], tokens, 1,
               r).parts

\* the templates: up to two pieces, each a token with or without alignment
\* and width, a malformed item, a brace or plain text
FormatWidths == {<<"0">>, <<"2">>, <<"8">>}

TemplatePieces ==
    {<<"{", w, "}">> : w \in TokenWords}
    \cup {<<"{", w, a>> \o d \o <<"}">> :
              w \in TokenWords, a \in AlignSyms, d \in FormatWidths}
    \cup {<<"x">>, <<"{">>, <<"}">>, <<"{", "}">>, <<"{", "name", "<", "}">>,
          <<"{", "<", "2", "}">>}

Templates ==
    {<<>>} \cup TemplatePieces
           \cup {p \o q : p \in TemplatePieces, q \in TemplatePieces}

\* the templates given to SetFormat: two that compile, three that do not
SetFormatTemplates ==
    {<<"{", "message", "}">>, <<"x", "{", "level", ">", "8", "}">>,
     <<"x">>, <<"{", "bogus", "}">>,
     <<"{", "name", "}", "{", "bogus", "}">>}

\* the records given to Format
FormatTimes ==
    {[Year |-> 2026, Month |-> 11, Day |-> 3, Hour |-> 4, Minute |-> 5,
      Second |-> 6, Nanosecond |-> ns] : ns \in {7000000, 123456789}}

FormatRecords ==
    {[Time |-> t, Name |-> n, Level |-> INFO, Message |-> <<"h", "i">>] :
        t \in FormatTimes,
        n \in {<<>>, <<"t", "e", "s", "t">>, <<"a", "/", "b", "c">>}}
    \cup {[Time |-> t, Name |-> <<"t", "e", "s", "t">>, Level |-> WARNING,
           Message |-> <<>>] : t \in FormatTimes}

NoFormatRecord ==
    [Time |-> [Year |-> 0, Month |-> 0, Day |-> 0, Hour |-> 0, Minute |-> 0,
               Second |-> 0, Nanosecond |-> 0],
     Name |-> <<>>, Level |-> 0, Message |-> <<>>]

\* no TemplateFormatter yet
NoFormatter ==
    [made |-> FALSE, formatString |-> <<>>, formatTokens |-> <<>>,
     op |-> "none", arg |-> <<>>, err |-> "nil", before |-> <<>>,
     rec |-> NoFormatRecord, out |-> <<>>]

\* what the formatter calls leave alone
NotFormatter ==
    <<rootLogger, loggers, nodes, hs, pc, sdPending, sdCur, exitAfter, last,
      calls, stagedMsgs, admitted, nemit, ncfg, nshut, lim, sdCalls, thr,
      wfh, recordPool>>

InitFormat ==
    /\ rootLogger = 0
    /\ loggers = [n \in {} |-> 0]
    /\ nodes = <<>>
    /\ hs = <<>>
    /\ pc = "idle"
    /\ sdPending = {}
    /\ sdCur = 0
    /\ exitAfter = FALSE
    /\ last = NoCall
    /\ calls = <<>>
    /\ stagedMsgs = {}
    /\ admitted = FALSE
    /\ nemit = 0
    /\ ncfg = 0
    /\ nshut = 0
    /\ lim = [loggers |-> 0, calls |-> 0]
    /\ sdCalls = <<>>
    /\ thr = <<>>
    /\ tf = NoFormatter
    /\ wfh = <<>>
    /\ recordPool = <<>>

\* func NewTemplateFormatter(format string) (*TemplateFormatter, error)
NewTemplateFormatter(format) ==
    LET c == compile(format)
    IN /\ ~tf.made
       /\ tf.op = "none"
       /\ tf' = [tf EXCEPT !.made = (c.err = "nil"),
                           !.formatString = IF c.err = "nil" THEN format
                                            ELSE <<>>,
                           !.formatTokens = IF c.err = "nil" THEN c.tokens
                                            ELSE <<>>,
                           !.op = "New", !.arg = format, !.err = c.err]
       /\ UNCHANGED NotFormatter

\* func (f *TemplateFormatter) SetFormat(template string) error
SetFormat(template) ==
    LET c == compile(template)
    IN /\ tf.made
       /\ tf.op = "New"
       /\ tf' = [tf EXCEPT !.formatTokens = IF c.err = "nil" THEN c.tokens
                                            ELSE @,
                           !.op = "SetFormat", !.arg = template,
                           !.err = c.err, !.before = tf.formatTokens]
       /\ UNCHANGED NotFormatter

\* func (f *TemplateFormatter) Format(r *Record) ([]byte, error)
FormatRecord(r) ==
    /\ tf.made
    /\ tf.op \in {"New", "SetFormat"}
    /\ tf' = [tf EXCEPT !.op = "Format", !.rec = r,
                        !.out = Format(tf.formatTokens, r)]
    /\ UNCHANGED NotFormatter

NextFormat ==
    \/ \E t \in Templates : NewTemplateFormatter(t)
    \/ \E t \in SetFormatTemplates : SetFormat(t)
    \/ \E r \in FormatRecords : FormatRecord(r)

SpecFormat == InitFormat /\ [][NextFormat]_vars

\* ---------------------------------------------------------------- emission

st0 ==
    [nodes |-> nodes, hs |-> hs, calls |-> <<>>, blocked |-> FALSE,
     recs |-> 0]

\* an emission call on logger l that ran to its end in state st
Emit(op, l, lvl, st) ==
    /\ ~st.blocked
    /\ nodes' = st.nodes
    /\ hs' = st.hs
    /\ calls' = st.calls
    /\ nemit' = nemit + 1
    /\ last' = [API(op, l, lvl, nemit + 1) EXCEPT !.recs = st.recs]
    /\ admitted' = (admitted \/ lvl >= Level(nodes, l))
    /\ UNCHANGED <<rootLogger, loggers, sdCur, ncfg, nshut, lim, thr, tf, wfh, recordPool>>

CanEmit(l) ==
    /\ pc = "idle"
    /\ ncfg + nemit < lim.calls
    /\ l \in 1..Len(nodes)

\* Warning/Info/Debug/Log: clear the staged messages, then log
Plain(op, l, lvl) ==
    /\ CanEmit(l)
    /\ Emit(op, l, lvl, log(clearStaged(st0, l), l, lvl, FALSE, nemit + 1))
    /\ UNCHANGED <<pc, sdPending, exitAfter, stagedMsgs, sdCalls>>

Warning(l) == Plain("Warning", l, WARNING)

Info(l) == Plain("Info", l, INFO)

Debug(l) == Plain("Debug", l, DEBUG)

Log(l, lvl) == Plain("Log", l, lvl)

\* StageWarning/StageInfo/StageDebug/StageLog
Stage(op, l, lvl) ==
    /\ CanEmit(l)
    /\ Emit(op, l, lvl, log(st0, l, lvl, TRUE, nemit + 1))
    /\ stagedMsgs' = IF lvl >= Level(nodes, l)
                     THEN stagedMsgs \cup {nemit + 1}
                     ELSE stagedMsgs
    /\ UNCHANGED <<pc, sdPending, exitAfter, sdCalls>>

StageWarning(l) == Stage("StageWarning", l, WARNING)

StageInfo(l) == Stage("StageInfo", l, INFO)

StageDebug(l) == Stage("StageDebug", l, DEBUG)

StageLog(l, lvl) == Stage("StageLog", l, lvl)

\* an Error that logs its own message first and flushes afterwards
ErrorLogFirst(l) ==
    /\ CanEmit(l)
    /\ Emit("Error", l, ERROR,
            flushStaged(log(st0, l, ERROR, FALSE, nemit + 1), l))
    /\ stagedMsgs' = {}
    /\ UNCHANGED <<pc, sdPending, exitAfter, sdCalls>>

\* Error: flush the staged messages, then log at ERROR
Error(l) ==
    /\ CanEmit(l)
    /\ Emit("Error", l, ERROR,
            log(flushStaged(st0, l), l, ERROR, FALSE, nemit + 1))
    /\ stagedMsgs' = {}
    /\ UNCHANGED <<pc, sdPending, exitAfter, sdCalls>>

\* a Fatal that ends the process without Shutdown()
FatalWithoutShutdown(l) ==
    /\ CanEmit(l)
    /\ Emit("Fatal", l, FATAL,
            log(flushStaged(st0, l), l, FATAL, FALSE, nemit + 1))
    /\ stagedMsgs' = {}
    /\ pc' = "exited"
    /\ exitAfter' = TRUE
    /\ UNCHANGED <<sdPending, sdCalls>>

\* Fatal: flush, log at FATAL, Shutdown(), os.Exit(1)
Fatal(l) ==
    /\ CanEmit(l)
    /\ Emit("Fatal", l, FATAL,
            log(flushStaged(st0, l), l, FATAL, FALSE, nemit + 1))
    /\ stagedMsgs' = {}
    /\ sdPending' = collectHandlers(nodes, rootLogger)
    /\ pc' = "shutdown"
    /\ exitAfter' = TRUE
    /\ sdCalls' = <<>>

\* Crash: flush, l.Error (flush, log at ERROR); with a non-zero exit code
\* Shutdown() and os.Exit(exitCode)
Crash(l, exitCode) ==
    /\ CanEmit(l)
    /\ Emit("Crash", l, ERROR,
            log(flushStaged(flushStaged(st0, l), l), l, ERROR, FALSE,
                nemit + 1))
    /\ stagedMsgs' = {}
    /\ IF exitCode # 0
       THEN /\ sdPending' = collectHandlers(nodes, rootLogger)
            /\ pc' = "shutdown"
            /\ exitAfter' = TRUE
            /\ sdCalls' = <<>>
       ELSE UNCHANGED <<pc, sdPending, exitAfter, sdCalls>>

\* ---------------------------------------------------------------- Next

Next ==
    \/ \E name \in {<<>>} \cup {<<s>> : s \in {RootName} \cup SubNames} :
           GetLogger(name)
    \/ \E l \in 1..MaxLoggers, s \in SubNames : LoggerGetLogger(l, s)
    \/ \E l \in 1..MaxLoggers, lvl \in SetLevels : SetLevel(l, lvl)
    \/ \E l \in 1..MaxLoggers, h \in 1..MaxHandlers : AddHandler(l, h)
    \/ \E l \in 1..MaxLoggers : RemoveHandlers(l)
    \/ \E l \in 1..MaxLoggers, h \in 1..MaxHandlers : ReplaceHandlers(l, h)
    \/ NewStreamHandler
    \/ \E h \in 1..MaxHandlers : SetFormatter(h)
    \/ \E h \in 1..MaxHandlers, lvl \in HandlerLevels : HandlerSetLevel(h, lvl)
    \/ \E l \in 1..MaxLoggers : Warning(l)
    \/ \E l \in 1..MaxLoggers : Info(l)
    \/ \E l \in 1..MaxLoggers : Debug(l)
    \/ \E l \in 1..MaxLoggers, lvl \in LogLevels : Log(l, lvl)
    \/ \E l \in 1..MaxLoggers : StageWarning(l)
    \/ \E l \in 1..MaxLoggers : StageInfo(l)
    \/ \E l \in 1..MaxLoggers : StageDebug(l)
    \/ \E l \in 1..MaxLoggers, lvl \in LogLevels : StageLog(l, lvl)
    \/ \E l \in 1..MaxLoggers : Error(l)
    \/ \E l \in 1..MaxLoggers : Fatal(l)
    \/ \E l \in 1..MaxLoggers, c \in ExitCodes : Crash(l, c)
    \/ Shutdown
    \/ \E h \in 1..MaxHandlers : shutdownHandlers(h)
    \/ committerDone
    \/ ShutdownReturn
    \/ \E h \in 1..MaxHandlers : committer(h)
    \/ \E h \in 1..MaxHandlers : committerEnd(h)

Spec == Init /\ [][Next]_vars

\* the logger tree alone: GetLogger and SetLevel calls
NextTree ==
    \/ \E name \in {<<>>} \cup {<<s>> : s \in {RootName} \cup TreeNames} :
           GetLogger(name)
    \/ \E l \in 1..TreeLoggers, s \in TreeNames : LoggerGetLogger(l, s)
    \/ \E l \in 1..TreeLoggers, lvl \in Levels : SetLevel(l, lvl)

SpecTree == InitTree /\ [][NextTree]_vars

\* ---------------------------------------------------------------- properties

\* the loggers from l up to the root
RECURSIVE Path(_, _)
Path(ns, l) == IF l = 0 THEN <<>> ELSE <<l>> \o Path(ns, ns[l].parent)

\* the position of logger n on path p
PathPos(p, n) == CHOOSE i \in 1..Len(p) : p[i] = n

\* the records handler h has written or will write, in order
Out(hd, h) == hd[h].sink \o hd[h].commitChannel

\* the message texts of a sequence of records, in order
MsgSeq(recs) == [i \in 1..Len(recs) |-> recs[i].Message]

\* the positions of message m in a sequence of records
Pos(recs, m) == {i \in 1..Len(recs) : recs[i].Message = m}

\* the Handle invocations of phase ph among cs
PhaseCalls(cs, ph) == SelectSeq(cs, LAMBDA c : c.phase = ph)

\* the records passed to attachment i of logger n in phase ph, in order
AttachmentRecs(cs, n, i, ph) ==
    LET sel == SelectSeq(cs, LAMBDA c :
                   c.phase = ph /\ c.node = n /\ c.idx = i)
    IN [k \in 1..Len(sel) |-> sel[k].rec]

\* the attachments (node, index) of the loggers of path p
Attachments(ns, p) ==
    UNION {{<<n, i>> : i \in 1..Len(ns[n].handlers)} : n \in Range(p)}

NonStagingOps == {"Warning", "Info", "Debug", "Log", "Error", "Fatal", "Crash"}

FlushingOps == {"Error", "Fatal", "Crash"}

StageXOps == {"StageDebug", "StageInfo", "StageWarning"}

\* the last API call was an emission that passed the level check of Logger.log
LastAdmitted == last.op # "none" /\ last.lvl >= Level(nodes, last.node)

\* ---------------------------------------------------------------- C1

\* C1: after every non-staging emission, each handler attachment on the path
\* from the emitting logger to the root got a Handle call with the record if
\* and only if the record's level is at or above the logger's Level() and the
\* handler's level is INHERIT or at or below the record's level.
C1_HandleIffLevelsAdmit ==
    last.op \in NonStagingOps =>
        \A a \in Attachments(nodes, Path(nodes, last.node)) :
            LET h == nodes[a[1]].handlers[a[2]]
            IN (\E k \in 1..Len(calls) :
                    /\ calls[k].phase = "log"
                    /\ calls[k].node = a[1]
                    /\ calls[k].idx = a[2]
                    /\ calls[k].rec.Message = last.msg)
               <=> (/\ last.lvl >= Level(nodes, last.node)
                    /\ (hs[h].level = INHERIT \/ last.lvl >= hs[h].level))

\* ---------------------------------------------------------------- C2

\* C2: a logger without a level of its own, with an ancestor that has one,
\* reports as Level() the level of the nearest such ancestor.
C2_LevelOfNearestExplicitAncestor ==
    \A l \in 1..Len(nodes) :
        LET p == Path(nodes, l)
        IN \A i \in 2..Len(p) :
               (/\ nodes[p[i]].level # INHERIT
                /\ \A j \in 1..(i - 1) : nodes[p[j]].level = INHERIT)
               => Level(nodes, l) = nodes[p[i]].level

\* a logger three below the root, it and its parent without a level, takes the
\* level of its grandparent, which differs from the level of the root
C2_Witness ==
    \E l \in 1..Len(nodes) :
        LET p == Path(nodes, l)
        IN /\ Len(p) = 4
           /\ nodes[l].level = INHERIT
           /\ nodes[p[2]].level = INHERIT
           /\ nodes[p[3]].level # INHERIT
           /\ nodes[p[4]].level \notin {INHERIT, nodes[p[3]].level}
           /\ Level(nodes, l) = nodes[p[3]].level

\* ---------------------------------------------------------------- C3

\* C3: Level() of every logger is a concrete level, never INHERIT, and it is
\* WARNING when no logger on the chain up to the root has a level of its own.
C3_LevelNeverInherit ==
    \A l \in 1..Len(nodes) :
        /\ Level(nodes, l) # INHERIT
        /\ (\A n \in Range(Path(nodes, l)) : nodes[n].level = INHERIT)
           => Level(nodes, l) = WARNING

\* ---------------------------------------------------------------- C4

\* C4: the Handle calls of one non-staging emission go to handlers attached
\* on the path, and of any two of them the earlier one is at a logger nearer
\* to the emitting logger, or at the same logger for a handler attached
\* earlier.
C4_HandleOrder ==
    last.op \in NonStagingOps =>
        LET p  == Path(nodes, last.node)
            lc == PhaseCalls(calls, "log")
        IN /\ \A k \in 1..Len(lc) :
                  /\ <<lc[k].node, lc[k].idx>> \in Attachments(nodes, p)
                  /\ lc[k].h = nodes[lc[k].node].handlers[lc[k].idx]
           /\ \A j, k \in 1..Len(lc) :
                  j < k =>
                      \/ PathPos(p, lc[j].node) < PathPos(p, lc[k].node)
                      \/ /\ lc[j].node = lc[k].node
                         /\ lc[j].idx < lc[k].idx

\* an emission at a logger with two attachments, below a root with a handler
C4_Witness ==
    /\ last.op \in NonStagingOps
    /\ nodes[last.node].parent # 0
    /\ LET lc == PhaseCalls(calls, "log")
       IN /\ Len(lc) >= 3
          /\ lc[1].node = last.node /\ lc[1].idx = 1
          /\ lc[2].node = last.node /\ lc[2].idx = 2
          /\ lc[3].node = nodes[last.node].parent

\* ---------------------------------------------------------------- C5

\* C5: a non-staging emission that passes the level check makes exactly one
\* Handle call, with its record, for every attachment on the path and none
\* for any other; a handler attached k times on the path is called k times
\* and, unless shut down, enqueues the record k times.
C5_OneHandlePerAttachment ==
    (last.op \in NonStagingOps /\ LastAdmitted) =>
        LET p  == Path(nodes, last.node)
            lc == PhaseCalls(calls, "log")
        IN /\ \A a \in Attachments(nodes, p) :
                  Cardinality({k \in 1..Len(lc) :
                      lc[k].node = a[1] /\ lc[k].idx = a[2]}) = 1
           /\ \A k \in 1..Len(lc) :
                  /\ <<lc[k].node, lc[k].idx>> \in Attachments(nodes, p)
                  /\ lc[k].rec.Message = last.msg
           /\ \A h \in 1..Len(hs) :
                  /\ Cardinality({k \in 1..Len(lc) : lc[k].h = h})
                       = Cardinality({a \in Attachments(nodes, p) :
                             nodes[a[1]].handlers[a[2]] = h})
                  /\ Cardinality(Pos(Out(hs, h), last.msg))
                       = Cardinality({k \in 1..Len(lc) :
                             lc[k].h = h /\ lc[k].acc})

\* one handler attached at the emitting logger and at its parent has the
\* record twice in its output
C5_Witness ==
    /\ last.op \in NonStagingOps
    /\ LastAdmitted
    /\ nodes[last.node].parent # 0
    /\ \E h \in 1..Len(hs) :
           /\ h \in Range(nodes[last.node].handlers)
           /\ h \in Range(nodes[nodes[last.node].parent].handlers)
           /\ Cardinality(Pos(Out(hs, h), last.msg)) = 2

\* ---------------------------------------------------------------- C6

\* C6: as long as every emission so far was below the Level() of its logger,
\* no handler has anything written or queued, also after Shutdown; and the
\* record of a below-level call is passed to no handler, queued, written or
\* staged nowhere.
C6_BelowLevelWritesNothing ==
    /\ ~admitted =>
           \A h \in 1..Len(hs) :
               hs[h].sink = <<>> /\ hs[h].commitChannel = <<>>
    /\ (last.op # "none" /\ ~LastAdmitted) =>
           /\ \A k \in 1..Len(calls) : calls[k].rec.Message # last.msg
           /\ \A h \in 1..Len(hs) : Pos(Out(hs, h), last.msg) = {}
           /\ \A n \in 1..Len(nodes) : Pos(nodes[n].staged, last.msg) = {}

\* only below-level calls were made, then Shutdown() ran to its end
C6_Witness ==
    /\ nemit >= 1
    /\ ~admitted
    /\ nshut = 1
    /\ pc = "idle"
    /\ \E h \in 1..Len(hs) :
           hs[h].shutdown /\ hs[h].cpc = "exit" /\ hs[h].sink = <<>>

\* ---------------------------------------------------------------- C7

\* the step is the call op on the logger of the previous call, which was an
\* emission
NextCallOnSameLogger(op) ==
    /\ last'.op = op
    /\ last'.node = last.node
    /\ last'.msg = last.msg + 1

\* the records handler h enqueued in the step
Enqueued(h) ==
    SubSeq(Out(hs', h), Len(Out(hs, h)) + 1, Len(Out(hs', h)))

\* an open handler attached on the path of the logger of the previous call
OpenOnPath(h) ==
    /\ ~hs[h].shutdown
    /\ \E a \in Attachments(nodes, Path(nodes, last.node)) :
           nodes[a[1]].handlers[a[2]] = h

StagedThenError ==
    (last.op \in StageXOps /\ LastAdmitted /\ NextCallOnSameLogger("Error"))
    => LET p == Path(nodes, last.node)
           x == last.msg
           y == last'.msg
       IN /\ \A a \in Attachments(nodes, p) :
                 LET fl == MsgSeq(AttachmentRecs(calls', a[1], a[2],
                                                 "flush"))
                 IN /\ \E i \in 1..Len(fl) : fl[i] = x
                    /\ \A i, j \in 1..Len(fl) : i < j => fl[i] < fl[j]
                    /\ MsgSeq(AttachmentRecs(calls', a[1], a[2], "log"))
                         = <<y>>
          /\ \A h \in 1..Len(hs) :
                 OpenOnPath(h) =>
                     LET o == Out(hs', h)
                     IN /\ Pos(o, x) # {}
                        /\ Pos(o, y) # {}
                        /\ \A i \in Pos(o, x), j \in Pos(o, y) : i < j
                        /\ \A a \in Attachments(nodes, p) :
                               (\A b \in Attachments(nodes, p) :
                                    nodes[b[1]].handlers[b[2]] = h => b = a)
                               => MsgSeq(Enqueued(h)) =
                                    Append(MsgSeq(nodes[a[1]].staged), y)

\* C7: when StageDebug, StageInfo or StageWarning with message x passed the
\* level check and the next call is Error with message y on the same logger,
\* every attachment on the path is handed the staged messages, x among them,
\* oldest first, and then y; every open handler on the path has x and y in its
\* output, every x before every y; a handler attached once gets exactly the
\* staged messages of its logger in staging order, then y.
C7_StagedThenError == [][StagedThenError]_vars

\* Error after two staged messages: the handler has written the three
\* messages, the staged ones first, in staging order
C7_Witness ==
    /\ last.op = "Error"
    /\ last.msg = 3
    /\ \E h \in 1..Len(hs) :
           /\ MsgSeq(hs[h].sink) = <<1, 2, 3>>
           /\ hs[h].sink[1].Level < ERROR
           /\ hs[h].sink[2].Level < ERROR
           /\ hs[h].sink[3].Level = ERROR

\* ---------------------------------------------------------------- C8

StagedThenInfo ==
    (last.op = "StageInfo" /\ LastAdmitted /\ NextCallOnSameLogger("Info"))
    => LET p == Path(nodes, last.node)
           x == last.msg
           y == last'.msg
       IN /\ \A k \in 1..Len(calls') : calls'[k].rec.Message # x
          /\ \A h \in 1..Len(hs) : Pos(Out(hs', h), x) = {}
          /\ \A a \in Attachments(nodes, p) :
                 MsgSeq(AttachmentRecs(calls', a[1], a[2], "log")) = <<y>>
          /\ \A h \in 1..Len(hs) :
                 OpenOnPath(h) => Pos(Out(hs', h), y) # {}

\* C8: when StageInfo with message x passed the level check and the next call
\* is Info with message y on the same logger, x is handed to no handler and
\* is in no handler's output, and y is handed once to every attachment on the
\* path and is in the output of every open handler on the path.
C8_StagedThenInfo == [][StagedThenInfo]_vars

\* Info after StageInfo on a logger below the root: the handler of the root
\* was handed the Info message, the staged one is still in the root's buffer
C8_Witness ==
    /\ last.op = "Info"
    /\ LastAdmitted
    /\ nodes[last.node].parent # 0
    /\ calls # <<>>
    /\ \E n \in 1..Len(nodes) : \E i \in 1..Len(nodes[n].staged) :
           nodes[n].staged[i] = [Name |-> nodes[last.node].name,
                                 Level |-> INFO, Message |-> last.msg - 1]
    /\ \E h \in 1..Len(hs) : MsgSeq(Out(hs, h)) = <<last.msg>>

\* ---------------------------------------------------------------- C9

\* C9: a message staged since the last Error, Fatal or Crash has been handed
\* to no handler by the last call and is in no handler's queue or sink,
\* whatever StageX calls, plain calls and Shutdown followed.
C9_StagedNotHandled ==
    \A m \in stagedMsgs :
        /\ \A k \in 1..Len(calls) : calls[k].rec.Message # m
        /\ \A h \in 1..Len(hs) : Pos(Out(hs, h), m) = {}

\* a message was staged, another one written, and Shutdown() ran to its end
C9_Witness ==
    /\ stagedMsgs # {}
    /\ \E n \in 1..Len(nodes) : nodes[n].staged # <<>>
    /\ nshut = 1
    /\ pc = "idle"
    /\ \E h \in 1..Len(hs) : hs[h].cpc = "exit" /\ hs[h].sink # <<>>

\* ---------------------------------------------------------------- C10

FlushThenLog ==
    (last'.op \in FlushingOps /\ nemit' = nemit + 1)
    => LET p  == Path(nodes, last'.node)
           fc == PhaseCalls(calls', "flush")
       IN /\ \A a \in Attachments(nodes, p) :
                 /\ AttachmentRecs(calls', a[1], a[2], "flush")
                      = nodes[a[1]].staged
                 /\ AttachmentRecs(calls', a[1], a[2], "log")
                      = <<[Name |-> nodes[last'.node].name,
                           Level |-> last'.lvl, Message |-> last'.msg]>>
          /\ \A k \in 1..Len(fc) :
                 <<fc[k].node, fc[k].idx>> \in Attachments(nodes, p)
          /\ \A j, k \in 1..Len(fc) :
                 j < k => PathPos(p, fc[j].node) <= PathPos(p, fc[k].node)
          /\ \A j, k \in 1..Len(calls') :
                 (calls'[j].phase = "flush" /\ calls'[k].phase = "log")
                 => j < k
          /\ \A n \in Range(p) : nodes'[n].staged = <<>>

IsPrefix(s, t) == Len(s) <= Len(t) /\ SubSeq(t, 1, Len(s)) = s

HandlerShutdownReturns == pc = "wait" /\ pc' = "shutdown"

\* C14: StreamHandler.Shutdown() returns only after the committer has ended
\* its loop and signalled committerDone, and by then every record Handle
\* accepted is in the sink and none is left in commitChannel; this stays so
\* for a handler whose Shutdown() has returned.
ShutdownAfterDrain ==
    /\ HandlerShutdownReturns =>
          /\ hs[sdCur].cpc = "done"
          /\ hs'[sdCur].cpc = "exit"
    /\ \A h \in 1..Len(hs') :
          hs'[h].cpc = "exit" =>
              /\ hs'[h].commitChannel = <<>>
              /\ hs'[h].sink = hs'[h].accepted

AttachedHandlers == UNION {Range(nodes[n].handlers) : n \in 1..Len(nodes)}

\* the places (logger, index) where handler h is attached
AttachedAt(h) ==
    {<<n, i>> \in (1..Len(nodes)) \X (1..MaxCalls) :
        i <= Len(nodes[n].handlers) /\ nodes[n].handlers[i] = h}

\* the step in which the package-level Shutdown() returns
GlobalShutdownReturns == pc = "shutdown" /\ pc' \in {"idle", "exited"}

\* C16: when the package-level Shutdown() returns, it has called Shutdown()
\* exactly once on every handler attached to any logger of the tree, however
\* often and wherever the handler is attached, and on nothing else; at no
\* moment has it called a handler's Shutdown() twice.
ShutdownOnceEach ==
    /\ GlobalShutdownReturns =>
          /\ DOMAIN sdCalls = AttachedHandlers
          /\ \A h \in AttachedHandlers : sdCalls[h] = 1
    /\ \A h \in DOMAIN sdCalls' : sdCalls'[h] = 1

C16_ShutdownOnceEach == [][ShutdownOnceEach]_vars

\* Shutdown() has returned; a handler attached at two places, one of them
\* below the root, was shut down once
C16_Witness ==
    /\ pc = "idle"
    /\ nshut = 1
    /\ DOMAIN sdCalls = AttachedHandlers
    /\ \E h \in DOMAIN sdCalls :
          /\ sdCalls[h] = 1
          /\ Cardinality(AttachedAt(h)) >= 2
          /\ \E a \in AttachedAt(h) : a[1] # rootLogger

\* ---------------------------------------------------------------- C18

\* C18: l.AddHandler(h) with a handler that has no formatter returns
\* ErrNoFormatter and leaves l's handler list as it was; with a handler that
\* has a formatter it returns nil and l's list is the old list with h appended
\* at its end.  No other logger's list changes.
AddHandlerChecksFormatter ==
    \A l \in 1..MaxLoggers, h \in 1..MaxHandlers :
        AddHandler(l, h) =>
            /\ IF hs[h].formatter
               THEN /\ addHandlerErr(h) = "nil"
                    /\ nodes'[l].handlers = Append(nodes[l].handlers, h)
               ELSE /\ addHandlerErr(h) = "ErrNoFormatter"
                    /\ nodes'[l].handlers = nodes[l].handlers
            /\ Len(nodes') = Len(nodes)
            /\ \A n \in 1..Len(nodes) :
                  n # l => nodes'[n].handlers = nodes[n].handlers

C18_AddHandlerChecksFormatter == [][AddHandlerChecksFormatter]_vars

\* a second handler was added behind the first one of a logger, while the
\* other logger's list is as it was created
C18_Witness ==
    \E l \in 1..Len(nodes) :
        /\ nodes[l].handlers = <<1, 2>>
        /\ hs[2].formatter
        /\ \E n \in 1..Len(nodes) : n # l /\ nodes[n].handlers = <<>>

\* ---------------------------------------------------------------- C19

\* what never changes in the registry: Logger objects stay, with their name
\* and parent; registered names stay registered to the same Logger; a Logger
\* that is new and not the root has level INHERIT, no handlers and nothing
\* staged, and is registered under its name
RegistryOnlyGrows ==
    /\ Len(nodes') >= Len(nodes)
    /\ \A i \in 1..Len(nodes) :
          /\ nodes'[i].name = nodes[i].name
          /\ nodes'[i].parent = nodes[i].parent
    /\ \A n \in DOMAIN loggers :
          n \in DOMAIN loggers' /\ loggers'[n] = loggers[n]
    /\ \A i \in (Len(nodes) + 1)..Len(nodes') :
          i # rootLogger' =>
              /\ nodes'[i].level = INHERIT
              /\ nodes'[i].handlers = <<>>
              /\ nodes'[i].staged = <<>>
              /\ nodes'[i].name \in DOMAIN loggers'
              /\ loggers'[nodes'[i].name] = i

RegistryStable == [][RegistryOnlyGrows]_vars

\* C19: every full path belongs to exactly one Logger: no two Logger objects,
\* the root included, have the same name, and the registry maps a name to the
\* Logger of that name.
C19_OnePathOneNode ==
    /\ \A i, j \in 1..Len(nodes) : i # j => nodes[i].name # nodes[j].name
    /\ \A n \in DOMAIN loggers :
          /\ loggers[n] \in 1..Len(nodes)
          /\ nodes[loggers[n]].name = n

\* ---------------------------------------------------------------- C20

\* GetLogger() returns the root, whose name is empty
NoArgGivesRoot ==
    GetLogger(<<>>) =>
        /\ GetLoggerRet(<<>>)' = rootLogger'
        /\ nodes'[rootLogger'].name = <<>>

\* GetLogger(s) returns the Logger root.GetLogger(s) returns, and its name is s
NamedIsChildOfRoot(s) ==
    GetLogger(<<s>>) =>
        /\ GetLoggerRet(<<s>>)' = LoggerGetLoggerNow(rootLogger, s)'
        /\ nodes'[GetLoggerRet(<<s>>)'].name = s

\* l.GetLogger(s) returns the Logger named l.name + "/" + s
SubIsJoined(l, s) ==
    LoggerGetLogger(l, s) =>
        nodes'[LoggerGetLoggerRet(l, s)'].name
            = Append(nodes[l].name, "/") \o s

\* C20 as stated: GetLogger() returns the root, whose path is empty;
\* GetLogger(name) returns the same Logger as root.GetLogger(name), with path
\* name; n.GetLogger(name) on a Logger n other than the root returns the
\* Logger with path n.path + "/" + name.
PathConventionAsStated ==
    /\ NoArgGivesRoot
    /\ \A s \in {RootName} \cup TreeNames : NamedIsChildOfRoot(s)
    /\ \A l \in 1..TreeLoggers, s \in TreeNames :
          l # rootLogger => SubIsJoined(l, s)

PathConvention ==
    /\ NoArgGivesRoot
    /\ GetLogger(<<RootName>>) =>
          /\ GetLoggerRet(<<RootName>>)' = rootLogger'
          /\ nodes'[rootLogger'].name = <<>>
    /\ \A s \in TreeNames : NamedIsChildOfRoot(s)
    /\ \A l \in 1..TreeLoggers, s \in TreeNames :
          (l <= Len(nodes) /\ nodes[l].name # <<>>) => SubIsJoined(l, s)

LinesOf(h, name) == SelectSeq(hs[h].sink, LAMBDA r : r.Name = name)

\* no goroutine other than main has called Shutdown() on a handler
NoCloserCalled ==
    \A t \in 1..Len(thr) :
        thr[t].kind = "close" => thr[t].pc = "idle" /\ thr[t].n = 0

\* main has waited for the emitting goroutines and its Shutdown() has returned
MainShutdownReturned == pc = "idle" /\ nshut = 1

C13_NoSendOnClosedChannel ==
    \A t \in 1..Len(thr) : thr[t].pc # "panicSend"

\* ---------------------------------------------------------------- C15

\* C15: a Shutdown() call on a handler after the first one returns without
\* closing commitChannel again, whether the calls follow each other or run
\* at the same time: no goroutine closes the closed channel.
C15_NoSecondClose ==
    \A t \in 1..Len(thr) : thr[t].pc # "panicClose"

\* ---------------------------------------------------------------- C17

\* the records of the logger of goroutine t that its handlers accepted
AcceptedOf(t, h) ==
    SelectSeq(hs[h].accepted, LAMBDA r : r.Name = nodes[thr[t].logger].name)

\* commitChannel never holds more than QueueCap records; the send of Handle
\* can be done at once exactly when the channel has room; and when Info has
\* returned n times, the handler has accepted messages 1..n
QueueBounded ==
    /\ \A h \in 1..Len(hs) : Len(hs[h].commitChannel) <= QueueCap
    /\ \A t \in 1..Len(thr) :
          /\ (thr[t].pc = "send" /\ ~hs[Head(thr[t].todo)].closed) =>
                (ENABLED HandleSend(t)
                   <=> Len(hs[Head(thr[t].todo)].commitChannel) < QueueCap)
          /\ (thr[t].kind = "emit" /\ thr[t].pc = "idle") =>
                MsgSeq(AcceptedOf(t, 1)) = [k \in 1..thr[t].n |-> k]

\* in the end every accepted record is in the sink
AllWritten == \A h \in 1..Len(hs) : hs[h].sink = hs[h].accepted

PlainOps == {"Warning", "Info", "Debug", "Log"}

\* the calls that stage
StageOps == {"StageWarning", "StageInfo", "StageDebug", "StageLog"}

\* the step is a Debug/Info/Warning/Log/StageX call whose level is below the
\* effective level of its logger
BelowLevelStep ==
    /\ nemit' = nemit + 1
    /\ last'.op \in PlainOps \cup StageOps
    /\ last'.lvl < Level(nodes, last'.node)

\* C28 as stated: a log call below the effective level of its logger changes
\* no staged buffer, the one of its own logger included, no handler queue and
\* no sink.
BelowLevelNoEffect ==
    BelowLevelStep =>
        /\ hs' = hs
        /\ Len(nodes') = Len(nodes)
        /\ \A n \in 1..Len(nodes) : nodes'[n].staged = nodes[n].staged

C28_BelowLevelNoEffect == [][BelowLevelNoEffect]_vars

\* C28, amended: a StageX call below the effective level changes nothing; a
\* Debug/Info/Warning/Log call below the effective level empties the staged
\* buffer of its own logger and changes nothing else: no other staged buffer,
\* no handler queue, no sink.
BelowLevelOnlyClears ==
    BelowLevelStep =>
        /\ hs' = hs
        /\ nodes' = IF last'.op \in PlainOps
                    THEN [nodes EXCEPT ![last'.node].staged = <<>>]
                    ELSE nodes

C28_BelowLevelOnlyClears == [][BelowLevelOnlyClears]_vars

\* a record was staged, and the second call, a plain one below the level of
\* its logger, left no staged buffer with a record
C28_Witness ==
    /\ nemit = 2
    /\ stagedMsgs = {1}
    /\ last.op \in PlainOps
    /\ last.lvl < Level(nodes, last.node)
    /\ \A n \in 1..Len(nodes) : nodes[n].staged = <<>>
    /\ \A h \in 1..Len(hs) : hs[h].accepted = <<>>

\* ---------------------------------------------------------------- C29

\* the Handle calls of the step that hand over a record which came from
\* logger n with a message older than m
OlderOf(n, m) ==
    {k \in 1..Len(calls') :
        /\ calls'[k].rec.Name = nodes[n].name
        /\ calls'[k].rec.Message < m}

\* C29: a record staged through logger n and then discarded by a
\* Warning/Info/Debug/Log call on n is handed to no handler by a later call:
\* the call that follows the plain call on n, on whatever logger, hands over
\* no record that came from n before the plain call.
DiscardedStaysDiscarded ==
    (last.op \in PlainOps /\ nemit' = nemit + 1)
    => OlderOf(last.node, last.msg) = {}

C29_DiscardedStaysDiscarded == [][DiscardedStaysDiscarded]_vars

\* ---------------------------------------------------------------- C30

\* the step is a StageX call at or above the effective level of its logger
StageStep ==
    /\ nemit' = nemit + 1
    /\ last'.op \in StageOps
    /\ last'.lvl >= Level(nodes, last'.node)

\* C30: a StageX call at or above the effective level of logger n appends
\* one copy of its record at the end of the staged buffer of every logger on
\* the path from n to the root that has a handler, changes no other staged
\* buffer, calls no handler and enqueues nothing.
StageAppendsOnPath ==
    StageStep =>
        LET l   == last'.node
            rec == [Name |-> nodes[l].name, Level |-> last'.lvl,
                    Message |-> last'.msg]
        IN /\ hs' = hs
           /\ calls' = <<>>
           /\ Len(nodes') = Len(nodes)
           /\ \A n \in 1..Len(nodes) :
                 nodes'[n].staged =
                     IF n \in Range(Path(nodes, l))
                        /\ Len(nodes[n].handlers) > 0
                     THEN Append(nodes[n].staged, rec)
                     ELSE nodes[n].staged

C30_StageAppendsOnPath == [][StageAppendsOnPath]_vars

\* a StageX call on a logger without handlers below the root: the record is
\* the second one in the root's buffer, and the logger's own buffer is empty
C30_Witness ==
    /\ last.op \in StageOps
    /\ last.node # rootLogger
    /\ last.lvl >= Level(nodes, last.node)
    /\ nodes[last.node].handlers = <<>>
    /\ nodes[last.node].staged = <<>>
    /\ Len(nodes[rootLogger].staged) = 2
    /\ nodes[rootLogger].staged[2].Message = last.msg
    /\ nodes[rootLogger].staged[2].Name = nodes[last.node].name

\* ---------------------------------------------------------------- C25

\* os.Exit(1) of Fatal has ended the process
ExitedByFatal == pc = "exited" /\ last.op = "Fatal"

ItemNames(t) ==
    LET m == FindAllStringIndex(t, 1)
    IN {FindStringSubmatch(SubSeq(t, m[k][1] + 1, m[k][2] - 1)).token :
           k \in 1..Len(m)}

\* the template holds no item {...} at all
NoItem(t) == MatchStarts(t, 1) = {}

\* the template holds an item whose token name is none of the six
UnknownItem(t) == \E n \in ItemNames(t) : n \notin DOMAIN tokenToValue

\* C24: NewTemplateFormatter and SetFormat return an error exactly when the
\* template holds no {...} item or an item with an unknown token name; on an
\* error NewTemplateFormatter gives no formatter and SetFormat leaves the
\* compiled tokens as they were.
C24_ErrorIffNoOrUnknownToken ==
    tf.op \in {"New", "SetFormat"} =>
        /\ (tf.err # "nil") <=> (NoItem(tf.arg) \/ UnknownItem(tf.arg))
        /\ (tf.op = "New" /\ tf.err # "nil") => ~tf.made
        /\ (tf.op = "New" /\ tf.err = "nil") => tf.made
        /\ (tf.op = "SetFormat" /\ tf.err # "nil") =>
               tf.formatTokens = tf.before

C24_Witness ==
    /\ tf.op = "SetFormat"
    /\ tf.arg = <<"{", "name", "}", "{", "bogus", "}">>
    /\ tf.err = "unknown format template token"
    /\ tf.before # <<>>
    /\ tf.formatTokens = tf.before

\* ---------------------------------------------------------------- C23

\* the last call was Format on the tokens compiled from the one item
\* {word a digits}, for a record whose value for the word is val
FormattedItem(word, a, digits) ==
    /\ tf.op = "Format"
    /\ tf.formatTokens = compile(<<"{", word, a>> \o digits \o <<"}">>).tokens
    /\ tf.formatString = <<"{", word, a>> \o digits \o <<"}">>

\* C23: with a width w, a value shorter than w comes out padded with spaces
\* to exactly w symbols, on the right for {token<w} and on the left for
\* {token>w}; a longer value comes out cut to its first w symbols.
C23_PadsOrTruncatesToWidth ==
    \A a \in AlignSyms, d \in {<<"2">>, <<"8">>} :
        (FormattedItem("name", a, d) /\ tf.rec.Name # <<>>) =>
            LET w == Atoi(d)
                v == tf.rec.Name
            IN IF Len(v) > w THEN tf.out = SubSeq(v, 1, w)
               ELSE tf.out = IF a = "<" THEN v \o Spaces(w - Len(v))
                                        ELSE Spaces(w - Len(v)) \o v

\* ---------------------------------------------------------------- C26

\* C26: a value longer than the declared width is not truncated: the line
\* holds the value in full.
C26_LongValueInFull ==
    \A a \in AlignSyms, d \in {<<"2">>, <<"8">>} :
        (FormattedItem("name", a, d) /\ Len(tf.rec.Name) > Atoi(d)) =>
            tf.out = tf.rec.Name

\* ---------------------------------------------------------------- C27

\* the last call was Format on the tokens compiled from the bare item {word}
FormattedBare(word) ==
    /\ tf.op = "Format"
    /\ tf.formatString = <<"{", word, "}">>
    /\ tf.formatTokens = compile(<<"{", word, "}">>).tokens

\* every field of the record has a value
NonEmptyFields(r) == r.Name # <<>> /\ r.Message # <<>>

\* "YYYY-MM-DD hh:mm:ss" of a time, and its milliseconds in three digits
Seconds(t) == formatTime(t, <<>>)

Millis(t) == Decimal(t.Nanosecond \div 1000000, 3)

\* C27: {time} renders the time to the second, without a fraction; {timems}
\* renders the same followed by "." and three digits of milliseconds; every
\* recognized token renders non-empty for a record with non-empty fields.
C27_TimeAndTimemsResolution ==
    /\ FormattedBare("time") => tf.out = Seconds(tf.rec.Time)
    /\ FormattedBare("timems") =>
           tf.out = Seconds(tf.rec.Time) \o <<".">> \o Millis(tf.rec.Time)
    /\ \A w \in TokenWords :
           (<<w>> \in DOMAIN tokenToValue /\ FormattedBare(w)
              /\ NonEmptyFields(tf.rec)) => tf.out # <<>>

\* ---------------------------------------------------------------- watched file

\* The file system around one path, the filename of the handler: at is the
\* inode the path names (0: no file there), n the inodes made so far, data
\* the lines of each inode.  A file renamed away or removed keeps its inode.
MaxInodes == 3

MaxLines == 2

NoFiles ==
    [at |-> 0, n |-> 0, data |-> [i \in 1..MaxInodes |-> <<>>]]

\* no WatchedFileHandler yet: fd is the inode os.OpenFile has opened, sig the
\* recorded signature (the fields dev and inode; 0: none recorded), ret what
\* NewWatchedFileHandler gave
NoWatched ==
    [fs |-> NoFiles, pc |-> "run", op |-> "none", ret |-> "none", fd |-> 0,
     sig |-> 0, append |-> FALSE]

NotWatched ==
    <<rootLogger, loggers, nodes, hs, pc, sdPending, sdCur, exitAfter, last,
      calls, stagedMsgs, admitted, nemit, ncfg, nshut, lim, sdCalls, thr,
      tf, recordPool>>

InitWatched ==
    /\ rootLogger = 0
    /\ loggers = [n \in {} |-> 0]
    /\ nodes = <<>>
    /\ hs = <<>>
    /\ pc = "idle"
    /\ sdPending = {}
    /\ sdCur = 0
    /\ exitAfter = FALSE
    /\ last = NoCall
    /\ calls = <<>>
    /\ stagedMsgs = {}
    /\ admitted = FALSE
    /\ nemit = 0
    /\ ncfg = 0
    /\ nshut = 0
    /\ lim = [loggers |-> 0, calls |-> 0]
    /\ sdCalls = <<>>
    /\ thr = <<>>
    /\ tf = <<>>
    /\ wfh = NoWatched
    /\ recordPool = <<>>

\* another process makes a file at the path
CreateFile ==
    /\ wfh.pc = "run"
    /\ wfh.fs.at = 0
    /\ wfh.fs.n < MaxInodes
    /\ wfh' = [wfh EXCEPT !.fs.n = @ + 1, !.fs.at = wfh.fs.n + 1,
                          !.op = "create"]
    /\ UNCHANGED NotWatched

\* another process renames the file at the path away, or removes it
MoveFileAway ==
    /\ wfh.pc = "run"
    /\ wfh.fs.at # 0
    /\ wfh' = [wfh EXCEPT !.fs.at = 0, !.op = "move"]
    /\ UNCHANGED NotWatched

\* another process appends a line to the file at the path
ExternalWrite ==
    /\ wfh.pc = "run"
    /\ wfh.fs.at # 0
    /\ Len(wfh.fs.data[wfh.fs.at]) < MaxLines
    /\ wfh' = [wfh EXCEPT !.fs.data[wfh.fs.at] = Append(@, "other"),
                          !.op = "write"]
    /\ UNCHANGED NotWatched

\* os.OpenFile(filename, O_WRONLY|O_CREATE|O_APPEND or O_TRUNC, 0664) that
\* succeeds: the file system after it
OpenFile(fs, append) ==
    LET made == IF fs.at = 0
                THEN [fs EXCEPT !.n = @ + 1, !.at = fs.n + 1]
                ELSE fs
    IN IF append THEN made ELSE [made EXCEPT !.data[made.at] = <<>>]

\* func NewWatchedFileHandler(filename string, append bool): wfh.open() runs
\* os.OpenFile; when that fails (ok = FALSE) the error is returned with no
\* handler.  When it succeeds, the next statement of open(), h.writer = fp,
\* assigns to a field of the embedded *StreamHandler, which is still nil:
\* the goroutine panics.  The statement after it, h.dev, h.inode =
\* h.statFile(), and NewStreamHandler(wfh.fp) are never reached: sig stays
\* as it was, and no committer is started.
NewWatchedFileHandler(append, ok) ==
    /\ wfh.pc = "run"
    /\ wfh.fs.at # 0 \/ wfh.fs.n < MaxInodes
    /\ wfh' = IF ok
              THEN [wfh EXCEPT !.fs = OpenFile(wfh.fs, append),
                               !.fd = OpenFile(wfh.fs, append).at,
                               !.append = append, !.op = "New",
                               !.ret = "panic", !.pc = "panic"]
              ELSE [wfh EXCEPT !.append = append, !.op = "New",
                               !.ret = "err"]
    /\ UNCHANGED NotWatched

NextWatched ==
    \/ CreateFile
    \/ MoveFileAway
    \/ ExternalWrite
    \/ \E append \in BOOLEAN, ok \in BOOLEAN :
           NewWatchedFileHandler(append, ok)

SpecWatched == InitWatched /\ [][NextWatched]_vars

\* ---------------------------------------------------------------- C22

\* C22: a WatchedFileHandler made for a path whose file can be opened is a
\* handler that writes each record into the file that is at the path when the
\* record is written, also after the file was moved away or removed and a new
\* one made: the call that makes it returns the handler and the process goes
\* on.
C22_WatchedHandlerFollowsPath ==
    (wfh.op = "New" /\ wfh.fd # 0) => (wfh.ret = "handler" /\ wfh.pc = "run")

\* ---------------------------------------------------------------- C21

\* the messages of a sequence of records
MessagesOf(recs) == {recs[i].Message : i \in 1..Len(recs)}

\* every record handler h accepted is written, but for those whose own
\* formatting or writing failed
OnlyFailedMissing(h) ==
    /\ MessagesOf(hs[h].accepted) \ MessagesOf(hs[h].lost)
           = MessagesOf(hs[h].sink)
    /\ hs[h].cpc # "returned"

\* C21: an error in delivering a record affects that record only: the record
\* is dropped, the worker keeps running, and every record accepted before or
\* after it, whose own delivery does not fail, is formatted and written.
C21_ErrorAffectsOnlyItsRecord ==
    <>[](\A h \in 1..Len(hs) : OnlyFailedMissing(h))

\* ---------------------------------------------------------------- C31

\* the step is an emission call
EmissionStep == nemit' = nemit + 1

\* the Handle invocations of the call that hand over staged records
FlushCalls == {i \in 1..Len(calls') : calls'[i].phase = "flush"}

\* the flush invocations of the call for the same attachment and message
SameDelivery(i) ==
    {j \in FlushCalls :
        /\ calls'[j].node = calls'[i].node
        /\ calls'[j].idx = calls'[i].idx
        /\ calls'[j].rec.Message = calls'[i].rec.Message}

\* C31: a flush hands each staged record to the handlers of the node in whose
\* buffer it sits and to no other, once for each attachment of that node, and
\* takes it out of the buffer; a buffer holds no message twice.  So no
\* attachment gets a staged record twice, through two buffers or two flushes.
FlushedOncePerAttachment ==
    EmissionStep =>
        /\ \A i \in FlushCalls :
              /\ calls'[i].rec \in Range(nodes[calls'[i].node].staged)
              /\ calls'[i].idx \in 1..Len(nodes[calls'[i].node].handlers)
              /\ calls'[i].h =
                     nodes[calls'[i].node].handlers[calls'[i].idx]
              /\ Cardinality(SameDelivery(i)) = 1
              /\ calls'[i].rec \notin Range(nodes'[calls'[i].node].staged)
        /\ \A n \in 1..Len(nodes') :
              \A a, b \in 1..Len(nodes'[n].staged) :
                  nodes'[n].staged[a].Message = nodes'[n].staged[b].Message
                      => a = b

C31_FlushedOncePerAttachment == [][FlushedOncePerAttachment]_vars

\* an Error that handed one staged record to two attachments, one at the
\* emitting logger and one at the root
C31_Witness ==
    /\ last.op = "Error"
    /\ \E i, j \in 1..Len(calls) :
          /\ calls[i].phase = "flush" /\ calls[j].phase = "flush"
          /\ calls[i].node # calls[j].node
          /\ calls[i].rec.Message = calls[j].rec.Message

\* ---------------------------------------------------------------- C32

\* subName arguments of GetLogger, one of them with a separator in it
PathNames == {<<"a">>, <<"b">>, <<"a", "/", "b">>}

InitPaths == InitWith(TreeLoggers, TreeCalls)

\* the logger tree under GetLogger calls with these names
NextPaths ==
    \/ \E name \in {<<>>} \cup {<<s>> : s \in PathNames} : GetLogger(name)
    \/ \E l \in 1..TreeLoggers, s \in PathNames : LoggerGetLogger(l, s)

SpecPaths == InitPaths /\ [][NextPaths]_vars

\* the positions of the separators of a full path
Separators(p) == {i \in 1..Len(p) : p[i] = "/"}

\* the full path p without its last segment
ParentPath(p) ==
    SubSeq(p, 1, (CHOOSE i \in Separators(p) :
                      \A j \in Separators(p) : j <= i) - 1)

\* C32: every registered node with full path p has as parent the node whose
\* full path is p without its last segment, the root when p is one segment,
\* and is exactly once among the children of that parent.
C32_TreeConsistent ==
    \A p \in DOMAIN loggers :
        LET n == loggers[p]
            parent == nodes[n].parent
        IN /\ nodes[n].name = p
           /\ IF Separators(p) = {} THEN parent = rootLogger
              ELSE /\ ParentPath(p) \in DOMAIN loggers
                   /\ parent = loggers[ParentPath(p)]
           /\ parent # 0
           /\ Cardinality({i \in 1..Len(nodes[parent].children) :
                               nodes[parent].children[i] = n}) = 1

\* ---------------------------------------------------------------- C33

\* the own handler lists of the loggers of path p one after the other
RECURSIVE OwnListsAlong(_, _)
OwnListsAlong(ns, p) ==
    IF p = <<>> THEN <<>>
    ELSE ns[Head(p)].handlers \o OwnListsAlong(ns, Tail(p))

\* logger n is m or a descendant of m
IsAtOrBelow(ns, n, m) == m \in Range(Path(ns, n))

\* Handlers() of every logger is the own lists from the logger to the root
HandlersIsOwnListsToRoot(ns) ==
    \A n \in 1..Len(ns) :
        Handlers(ns, n) = OwnListsAlong(ns, Path(ns, n))

\* a call on logger m changed no own list but m's, changed Handlers() of no
\* logger but m and its descendants, and changed Handlers() of each of these
\* if it changed the list of m
OnlyOwnListChanged(m) ==
    /\ Len(nodes') = Len(nodes)
    /\ \A n \in 1..Len(nodes) :
          /\ n # m => nodes'[n].handlers = nodes[n].handlers
          /\ Handlers(nodes', n) # Handlers(nodes, n)
                => IsAtOrBelow(nodes, n, m)
          /\ (IsAtOrBelow(nodes, n, m)
                /\ nodes'[m].handlers # nodes[m].handlers)
                => Handlers(nodes', n) # Handlers(nodes, n)

\* C33: Handlers() on a logger is the concatenation of the own handler lists
\* from the logger up to the root, each in attachment order; AddHandler,
\* RemoveHandlers and ReplaceHandlers on a logger m change the own list of m
\* only and Handlers() of m and its descendants only.
HandlersFollowOwnLists ==
    /\ HandlersIsOwnListsToRoot(nodes')
    /\ \A m \in 1..MaxLoggers :
          /\ \A h \in 1..MaxHandlers :
                AddHandler(m, h) =>
                    /\ OnlyOwnListChanged(m)
                    /\ nodes'[m].handlers \in
                           {nodes[m].handlers, Append(nodes[m].handlers, h)}
          /\ RemoveHandlers(m) => OnlyOwnListChanged(m)
          /\ \A h \in 1..MaxHandlers :
                ReplaceHandlers(m, h) => OnlyOwnListChanged(m)

C33_HandlersFollowOwnLists == [][HandlersFollowOwnLists]_vars

\* the root got a second handler while it has a child with a handler of its
\* own: Handlers() of the child is its own list, then the two of the root
C33_Witness ==
    /\ Len(nodes) = 2
    /\ nodes[2].parent = 1
    /\ Len(nodes[1].handlers) = 2
    /\ Len(nodes[2].handlers) = 1
    /\ Handlers(nodes, 2) = nodes[2].handlers \o nodes[1].handlers
    /\ ncfg = 2

\* ---------------------------------------------------------------- C34

\* C34: after ReplaceHandlers(h) the own handler list of the logger is <<h>>,
\* whatever handler h is passed in; the call never leaves the logger without
\* a handler.
ReplacedByTheOne ==
    \A m \in 1..MaxLoggers, h \in 1..MaxHandlers :
        ReplaceHandlers(m, h) => nodes'[m].handlers = <<h>>

C34_ReplacedByTheOne == [][ReplacedByTheOne]_vars

\* ---------------------------------------------------------------- staging goroutines

\* goroutines that call StageInfo on one and the same logger
Stagers == 2

\* StageInfo calls of each of them
PerStager == 2

\* a goroutine that calls StageInfo on logger l, message after message; buf
\* is the slice value it has read from logger.staged
Stager(l) ==
    [kind |-> "stage", pc |-> "idle", logger |-> l, h |-> 0, n |-> 0,
     todo |-> <<>>, rec |-> NoRec, buf |-> <<>>]

\* the text of message k of goroutine t
StagerMessage(t, k) == 10 * t + k

\* the loggers with handlers from logger up to the root: those at which the
\* ancestor loop of Logger.log does something
RECURSIVE WithHandlers(_, _)
WithHandlers(ns, logger) ==
    IF logger = 0 THEN <<>>
    ELSE (IF Len(ns[logger].handlers) > 0 THEN <<logger>> ELSE <<>>)
             \o WithHandlers(ns, ns[logger].parent)

\* BasicConfig with Level DEBUG and one writer, GetLogger("t1"), the handler
\* of the root added to that logger too; Stagers goroutines on that logger
InitRace ==
    LET made == createRootLogger(<<>>, <<>>)
        ns   == WorkerLoggers(made.nodes, 1)
    IN /\ rootLogger = 1
       /\ nodes = [ns EXCEPT ![1].level = DEBUG,
                             ![2].handlers = Append(@, 1)]
       /\ loggers = [name \in {WorkerName(1)} |-> 2]
       /\ hs = made.hs
       /\ pc = "idle"
       /\ sdPending = {}
       /\ sdCur = 0
       /\ exitAfter = FALSE
       /\ last = NoCall
       /\ calls = <<>>
       /\ stagedMsgs = {}
       /\ admitted = FALSE
       /\ nemit = 0
       /\ ncfg = 0
       /\ nshut = 0
       /\ lim = [loggers |-> 2, calls |-> PerStager]
       /\ sdCalls = <<>>
       /\ thr = [t \in 1..Stagers |-> Stager(2)]
       /\ tf = <<>>
       /\ wfh = <<>>
       /\ recordPool = <<>>

\* Logger.StageInfo of goroutine t, Logger.log up to the ancestor loop: the
\* level check; the record is made at the first logger with handlers
StageBegin(t) ==
    LET l == thr[t].logger
    IN /\ t \in 1..Len(thr)
       /\ thr[t].kind = "stage"
       /\ thr[t].pc = "idle"
       /\ thr[t].n < lim.calls
       /\ IF INFO < Level(nodes, l) \/ WithHandlers(nodes, l) = <<>>
          THEN thr' = [thr EXCEPT ![t].n = @ + 1]
          ELSE thr' = [thr EXCEPT
                         ![t].pc = "load",
                         ![t].todo = WithHandlers(nodes, l),
                         ![t].rec = [Name |-> nodes[l].name, Level |-> INFO,
                                     Message |->
                                         StagerMessage(t, thr[t].n + 1)]]
       /\ UNCHANGED <<nodes, hs, pc, Others>>

\* logger.staged = append(logger.staged, *rec) of goroutine t, the read of
\* logger.staged.  No lock is held: Logger has no mutex.
StageLoad(t) ==
    /\ t \in 1..Len(thr)
    /\ thr[t].pc = "load"
    /\ thr' = [thr EXCEPT ![t].pc = "store",
                          ![t].buf = nodes[Head(thr[t].todo)].staged]
    /\ UNCHANGED <<nodes, hs, pc, Others>>

\* logger.staged = append(logger.staged, *rec) of goroutine t, the write of
\* the longer slice to logger.staged; then the parent, or the return
StageStore(t) ==
    /\ t \in 1..Len(thr)
    /\ thr[t].pc = "store"
    /\ nodes' = [nodes EXCEPT
                   ![Head(thr[t].todo)].staged = Append(thr[t].buf,
                                                        thr[t].rec)]
    /\ thr' = IF Len(thr[t].todo) > 1
              THEN [thr EXCEPT ![t].pc = "load", ![t].todo = Tail(@),
                               ![t].buf = <<>>]
              ELSE [thr EXCEPT ![t].pc = "idle", ![t].todo = <<>>,
                               ![t].buf = <<>>, ![t].rec = NoRec,
                               ![t].n = @ + 1]
    /\ UNCHANGED <<hs, pc, Others>>

NextRace ==
    \/ \E t \in 1..Stagers : StageBegin(t)
    \/ \E t \in 1..Stagers : StageLoad(t)
    \/ \E t \in 1..Stagers : StageStore(t)

SpecRace == InitRace /\ [][NextRace]_vars

\* ---------------------------------------------------------------- C35

\* every StageInfo call of every goroutine has returned
AllStaged ==
    \A t \in 1..Len(thr) : thr[t].pc = "idle" /\ thr[t].n = lim.calls

\* C35: concurrent StageX calls on one logger are as if made one after the
\* other: when all have returned, the staged buffer of that logger, and of
\* each ancestor with handlers, holds the record of every call, once.
C35_NoLostStagedRecord ==
    AllStaged =>
        \A n \in 1..Len(nodes) :
            /\ MessagesOf(nodes[n].staged) =
                   {StagerMessage(t, k) : t \in 1..Stagers, k \in 1..PerStager}
            /\ Len(nodes[n].staged) = Stagers * PerStager

\* ---------------------------------------------------------------- C36

\* the goroutines of SpecConc, each committer being scheduled as long as it
\* can receive or its range loop can end
SpecStop ==
    /\ InitConc
    /\ [][NextConc]_vars
    /\ WF_vars(\E h \in 1..MaxHandlers : committer(h))
    /\ WF_vars(\E h \in 1..MaxHandlers : committerEnd(h))

\* Shutdown() was called on handler h and has set h.shutdown
ShutdownCalled(h) == h \in 1..Len(hs) /\ hs[h].shutdown

\* the committer goroutine of handler h has left its loop, or the process is
\* gone by a panic
Stopped(h) ==
    h \in 1..Len(hs) /\ (hs[h].cpc \in {"done", "exit"} \/ pc = "exited")

\* a handler that is shut down stays so, and a stopped committer stays
\* stopped and neither formats nor writes
StoppedForGood ==
    \A h \in 1..Len(hs) :
        /\ hs[h].shutdown => hs'[h].shutdown
        /\ Stopped(h) =>
              /\ Stopped(h)'
              /\ hs'[h].sink = hs[h].sink
              /\ hs'[h].lost = hs[h].lost
              /\ hs'[h].commitChannel = hs[h].commitChannel

\* C36: after Shutdown is called on a handler its worker terminates in the
\* end, the handler never becomes active again, and a worker that has stopped
\* makes no further formatter call and no further write to the sink.
C36_WorkerStopsForGood ==
    /\ \A h \in 1..MaxHandlers : ShutdownCalled(h) ~> Stopped(h)
    /\ [][StoppedForGood]_vars

\* the handler was shut down with records still queued, the committer has
\* written them all and has left its loop, and no goroutine has panicked
C36_Witness ==
    /\ hs[1].shutdown
    /\ hs[1].cpc = "exit"
    /\ pc # "exited"
    /\ Len(hs[1].sink) = Workers * PerWorker
    /\ \E t \in 1..Len(thr) : thr[t].kind = "close" /\ thr[t].n = ShutdownCalls

\* ---------------------------------------------------------------- record pool

\* One logger with one handler, and the Record objects behind recordPool:
\* objs are the objects allocated so far (pointers are indices), free those
\* that are in the pool.  An entry of logger.staged or of commitChannel is
\* either a Record value (ref = 0, the value in val) or a pointer to an
\* object (ref); orig is the record as it was emitted (history).
MaxObjects == 2

PoolCalls == 3

PoolName == <<"t", "1">>

\* a staging that keeps the pointer to the pooled object in the buffer
stagePointer(objs, id) == [ref |-> id, val |-> objs[id], orig |-> objs[id]]

\* logger.staged = append(logger.staged, *rec): the buffer gets the value
stageRecord(objs, id) == [ref |-> 0, val |-> objs[id], orig |-> objs[id]]

\* h.commitChannel <- *rec: the channel gets the value
sendRecord(objs, id) == [ref |-> 0, val |-> objs[id], orig |-> objs[id]]

\* the record an entry stands for, as a reader finds it now
deref(objs, e) == IF e.ref = 0 THEN e.val ELSE objs[e.ref]

\* for _, rec := range logger.staged { h.Handle(&rec) }: the values of the
\* entries, as they are now, sent on the channel
flushEntries(objs, staged) ==
    [i \in 1..Len(staged) |->
        [ref |-> 0, val |-> deref(objs, staged[i]),
         orig |-> staged[i].orig]]

\* recordPool.Get(): an object of the pool, or a new one made by New
PoolGet ==
    recordPool.free \cup (IF Len(recordPool.objs) < MaxObjects
                          THEN {Len(recordPool.objs) + 1} ELSE {})

\* the objects after rec.Name, rec.Level, rec.Message are set in object id
written(id, lvl) ==
    LET r == [Name |-> PoolName, Level |-> lvl,
              Message |-> recordPool.n + 1]
    IN IF id > Len(recordPool.objs) THEN Append(recordPool.objs, r)
       ELSE [recordPool.objs EXCEPT ![id] = r]

NoPool ==
    [objs |-> <<>>, free |-> {}, staged |-> <<>>, commitChannel |-> <<>>,
     sink |-> <<>>, n |-> 0]

NotPool ==
    <<rootLogger, loggers, nodes, hs, pc, sdPending, sdCur, exitAfter, last,
      calls, stagedMsgs, admitted, nemit, ncfg, nshut, lim, sdCalls, thr,
      tf, wfh>>

InitPool ==
    /\ rootLogger = 0
    /\ loggers = [n \in {} |-> 0]
    /\ nodes = <<>>
    /\ hs = <<>>
    /\ pc = "idle"
    /\ sdPending = {}
    /\ sdCur = 0
    /\ exitAfter = FALSE
    /\ last = NoCall
    /\ calls = <<>>
    /\ stagedMsgs = {}
    /\ admitted = FALSE
    /\ nemit = 0
    /\ ncfg = 0
    /\ nshut = 0
    /\ lim = [loggers |-> 0, calls |-> 0]
    /\ sdCalls = <<>>
    /\ thr = <<>>
    /\ tf = <<>>
    /\ wfh = <<>>
    /\ recordPool = NoPool

\* StageInfo on the logger: Logger.log with stage = true
PoolStage(id) ==
    /\ recordPool.n < PoolCalls
    /\ id \in PoolGet
    /\ recordPool' =
           [recordPool EXCEPT
              !.objs = written(id, INFO),
              !.staged = Append(@, stageRecord(written(id, INFO), id)),
              !.free = @ \cup {id},
              !.n = @ + 1]
    /\ UNCHANGED NotPool

\* Warning on the logger: clear the staged records, Logger.log with
\* stage = false
PoolWarning(id) ==
    /\ recordPool.n < PoolCalls
    /\ id \in PoolGet
    /\ recordPool' =
           [recordPool EXCEPT
              !.objs = written(id, WARNING),
              !.staged = <<>>,
              !.commitChannel =
                  Append(@, sendRecord(written(id, WARNING), id)),
              !.free = @ \cup {id},
              !.n = @ + 1]
    /\ UNCHANGED NotPool

\* Error on the logger: flushStaged, Logger.log with stage = false
PoolError(id) ==
    /\ recordPool.n < PoolCalls
    /\ id \in PoolGet
    /\ recordPool' =
           [recordPool EXCEPT
              !.objs = written(id, ERROR),
              !.staged = <<>>,
              !.commitChannel =
                  Append(@ \o flushEntries(recordPool.objs,
                                           recordPool.staged),
                         sendRecord(written(id, ERROR), id)),
              !.free = @ \cup {id},
              !.n = @ + 1]
    /\ UNCHANGED NotPool

\* committer: receive a record and format it
PoolCommit ==
    /\ Len(recordPool.commitChannel) > 0
    /\ recordPool' =
           [recordPool EXCEPT
              !.commitChannel = Tail(@),
              !.sink = Append(@, [val |-> deref(recordPool.objs,
                                                Head(recordPool.commitChannel)),
                                  orig |-> Head(recordPool.commitChannel).orig])]
    /\ UNCHANGED NotPool

NextPool ==
    \/ \E id \in 1..MaxObjects : PoolStage(id)
    \/ \E id \in 1..MaxObjects : PoolWarning(id)
    \/ \E id \in 1..MaxObjects : PoolError(id)
    \/ PoolCommit

SpecPool == InitPool /\ [][NextPool]_vars

\* ---------------------------------------------------------------- C37

\* C37: a record in a staged buffer or in a handler queue keeps the name,
\* level and message it was emitted with, whatever later emissions do to the
\* pooled Record object; the worker formats exactly what was emitted.
C37_RecordsAreValues ==
    /\ \A i \in 1..Len(recordPool.staged) :
          deref(recordPool.objs, recordPool.staged[i])
              = recordPool.staged[i].orig
    /\ \A i \in 1..Len(recordPool.commitChannel) :
          deref(recordPool.objs, recordPool.commitChannel[i])
              = recordPool.commitChannel[i].orig
    /\ \A i \in 1..Len(recordPool.sink) :
          recordPool.sink[i].val = recordPool.sink[i].orig

\* two records were staged through one and the same pooled object and then
\* flushed and formatted
C37_Witness ==
    /\ Len(recordPool.objs) = 1
    /\ recordPool.n = 3
    /\ Len(recordPool.sink) = 3
    /\ recordPool.sink[1].val.Level = INFO
    /\ recordPool.sink[2].val.Level = INFO
    /\ recordPool.sink[3].val.Level = ERROR

\* ---------------------------------------------------------------- C38

\* the record of the emission call of the step
EmittedRecord ==
    [Name |-> nodes[last'.node].name, Level |-> last'.lvl,
     Message |-> last'.msg]

\* the Handle invocations of the call that hand over its own record
LogCalls == {i \in 1..Len(calls') : calls'[i].phase = "log"}

\* the emission of the step needs a Record: it passes the level check and a
\* logger on the path to the root has a handler
NeedsRecord ==
    /\ last'.lvl >= Level(nodes, last'.node)
    /\ WithHandlers(nodes, last'.node) # <<>>

\* C38: an emission makes no Record when it is below the effective level or
\* when no logger on the path to the root has a handler, and then hands
\* nothing to any handler and stages nothing; otherwise it makes exactly one
\* Record, and every handler on the path gets that one.
OneRecordWhenNeeded ==
    EmissionStep =>
        /\ last'.recs = IF NeedsRecord THEN 1 ELSE 0
        /\ \A i \in LogCalls : calls'[i].rec = EmittedRecord
        /\ ~NeedsRecord =>
              /\ LogCalls = {}
              /\ \A n \in 1..Len(nodes) :
                    EmittedRecord \notin Range(nodes'[n].staged)
        /\ WithHandlers(nodes, last'.node) = <<>> => hs' = hs
        /\ (NeedsRecord /\ last'.op \notin StageOps) =>
              Len(Handlers(nodes, last'.node)) = Cardinality(LogCalls)

C38_OneRecordWhenNeeded == [][OneRecordWhenNeeded]_vars

\* an admitted Info on a logger without handlers anywhere on its path: no
\* Record, nothing handed over
C38_Witness ==
    /\ last.op = "Info"
    /\ last.lvl >= Level(nodes, last.node)
    /\ WithHandlers(nodes, last.node) = <<>>
    /\ last.recs = 0
    /\ calls = <<>>
    /\ \A h \in 1..Len(hs) : hs[h].accepted = <<>>

\* ---------------------------------------------------------------- C39

\* C39: whenever the WatchedFileHandler has opened the file at its path as
\* its sink, the process goes on with a recorded signature that is the
\* identity of that file, so that the comparison before each write has the
\* identity of the sink's file to compare with.
C39_SignatureIsSinkIdentity ==
    wfh.fd # 0 => (wfh.pc = "run" /\ wfh.sig = wfh.fd)

\* ---------------------------------------------------------------- C40

\* the last call was Format on the tokens compiled from the item
\* {word a digits} followed by the bare item {later}
FormattedItemThen(word, a, digits, later) ==
    /\ tf.op = "Format"
    /\ tf.formatString = <<"{", word, a>> \o digits \o <<"}">>
                            \o <<"{", later, "}">>
    /\ tf.formatTokens = compile(tf.formatString).tokens

\* C40: a width and alignment declared on one token do not reach a later
\* token of the template: after {word<w} or {word>w}, the bare {level} comes
\* out as the name of the level in full and unpadded, after whatever the
\* first item alone renders, also when the value of the first is empty.
C40_WidthStaysOnItsToken ==
    \A word \in TokenWords, a \in AlignSyms, d \in FormatWidths :
        FormattedItemThen(word, a, d, "level") =>
            tf.out = Format(compile(<<"{", word, a>> \o d \o <<"}">>).tokens,
                            tf.rec)
                     \o LevelName(tf.rec.Level)

====
